---------------------------- MODULE Spec2Model ----------------------------
(***************************************************************************)
(* Model of scripts/validate_content.py (content-creation-ecosystem).     *)
(*                                                                         *)
(* A document is text: a sequence of one-character strings.  The checks   *)
(* of ContentValidator are regular-expression scans of that text; each    *)
(* scan is modelled by an operator that walks the characters exactly as   *)
(* Python's re module does for that pattern (leftmost, non-overlapping,   *)
(* greedy, IGNORECASE where the code passes it).  Every pattern of the     *)
(* code starts with a literal, so a scan steps from one occurrence of     *)
(* that literal to the next.                                               *)
(***************************************************************************)
EXTENDS Integers, Sequences, FiniteSets, TLC

(***************************************************************************)
(* Characters and Python string methods                                    *)
(***************************************************************************)

LowerLetters ==
    {"a","b","c","d","e","f","g","h","i","j","k","l","m",
     "n","o","p","q","r","s","t","u","v","w","x","y","z"}

Digits == {"0","1","2","3","4","5","6","7","8","9"}

\* str.lower() on one character
ToLowerMap ==
    [A |-> "a", B |-> "b", C |-> "c", D |-> "d", E |-> "e", F |-> "f",
     G |-> "g", H |-> "h", I |-> "i", J |-> "j", K |-> "k", L |-> "l",
     M |-> "m", N |-> "n", O |-> "o", P |-> "p", Q |-> "q", R |-> "r",
     S |-> "s", T |-> "t", U |-> "u", V |-> "v", W |-> "w", X |-> "x",
     Y |-> "y", Z |-> "z"]

LowerChar(c) == IF c \in DOMAIN ToLowerMap THEN ToLowerMap[c] ELSE c

\* str.lower() (as a sequence: SubSeq makes the result a tuple)
Lower(s) == SubSeq([i \in 1..Len(s) |-> LowerChar(s[i])], 1, Len(s))

\* [a-z0-9] under re.IGNORECASE
IsAlnum(c) == LowerChar(c) \in LowerLetters \cup Digits

\* \s, and the characters str.strip() / str.split() remove
IsSpace(c) == c \in {" ", "\n", "\t", "\r"}

\* s[i:] starts with p
MatchAt(s, i, p) ==
    /\ i >= 1
    /\ i + Len(p) - 1 <= Len(s)
    /\ \A k \in 1..Len(p) : s[i + k - 1] = p[k]

\* s[i:] starts with p, ignoring case (p is given in lower case)
MatchAtCI(s, i, p) ==
    /\ i >= 1
    /\ i + Len(p) - 1 <= Len(s)
    /\ \A k \in 1..Len(p) : LowerChar(s[i + k - 1]) = p[k]

\* p in s
Contains(s, p) == \E i \in 1..(Len(s) - Len(p) + 1) : MatchAt(s, i, p)

\* s.startswith(p)
StartsWith(s, p) == MatchAt(s, 1, p)

\* str.strip()
Strip(s) ==
    IF \A i \in 1..Len(s) : IsSpace(s[i]) THEN <<>>
    ELSE LET lo == CHOOSE i \in 1..Len(s) :
                      ~IsSpace(s[i]) /\ \A j \in 1..(i - 1) : IsSpace(s[j])
             hi == CHOOSE i \in 1..Len(s) :
                      ~IsSpace(s[i]) /\ \A j \in (i + 1)..Len(s) : IsSpace(s[j])
         IN  SubSeq(s, lo, hi)

\* index of the first character of s at or after i that is c; 0 when none
FirstAt(s, i, c) ==
    IF \E j \in i..Len(s) : s[j] = c
    THEN CHOOSE j \in i..Len(s) : s[j] = c /\ \A k \in i..(j - 1) : s[k] # c
    ELSE 0

\* index of the first occurrence of p (lower case) in s at or after i,
\* ignoring case; 0 when none
FirstMatchCI(s, i, p) ==
    IF \E j \in i..Len(s) : MatchAtCI(s, j, p)
    THEN CHOOSE j \in i..Len(s) :
            MatchAtCI(s, j, p) /\ \A k \in i..(j - 1) : ~MatchAtCI(s, k, p)
    ELSE 0

\* last index of the maximal [a-z0-9] run that starts at i (i - 1 when empty)
AlnumEnd(s, i) ==
    IF \E j \in i..Len(s) : ~IsAlnum(s[j])
    THEN (CHOOSE j \in i..Len(s) :
             ~IsAlnum(s[j]) /\ \A k \in i..(j - 1) : IsAlnum(s[k])) - 1
    ELSE Len(s)

\* content.split('\n')
RECURSIVE SplitLinesFrom(_, _)
SplitLinesFrom(s, i) ==
    LET nl == FirstAt(s, i, "\n")
    IN  IF nl = 0 THEN <<SubSeq(s, i, Len(s))>>
        ELSE <<SubSeq(s, i, nl - 1)>> \o SplitLinesFrom(s, nl + 1)

SplitLines(s) == SplitLinesFrom(s, 1)

\* list.count(x)
RECURSIVE CountIn(_, _)
CountIn(xs, x) ==
    IF xs = <<>> THEN 0
    ELSE (IF Head(xs) = x THEN 1 ELSE 0) + CountIn(Tail(xs), x)

(***************************************************************************)
(* _check_html_structure: the tag-balance scans                            *)
(***************************************************************************)

\* re.findall(r'<([a-z0-9]+)[^>]*>', content, re.IGNORECASE), from index i
RECURSIVE OpenTagsFrom(_, _)
OpenTagsFrom(s, from) ==
    LET i == FirstAt(s, from, "<")
    IN  IF i = 0 THEN <<>>
        ELSE IF i + 1 <= Len(s) /\ IsAlnum(s[i + 1])
        THEN LET e == AlnumEnd(s, i + 1)
                 g == FirstAt(s, e + 1, ">")
             IN  IF g = 0 THEN OpenTagsFrom(s, i + 1)
                 ELSE <<SubSeq(s, i + 1, e)>> \o OpenTagsFrom(s, g + 1)
        ELSE OpenTagsFrom(s, i + 1)

open_tags(content) == OpenTagsFrom(content, 1)

\* re.findall(r'</([a-z0-9]+)>', content, re.IGNORECASE), from index i
RECURSIVE CloseTagsFrom(_, _)
CloseTagsFrom(s, from) ==
    LET i == FirstAt(s, from, "<")
    IN  IF i = 0 THEN <<>>
        ELSE IF MatchAt(s, i, <<"<", "/">>) /\ i + 2 <= Len(s) /\ IsAlnum(s[i + 2])
        THEN LET e == AlnumEnd(s, i + 2)
             IN  IF e + 1 <= Len(s) /\ s[e + 1] = ">"
                 THEN <<SubSeq(s, i + 2, e)>> \o CloseTagsFrom(s, e + 2)
                 ELSE CloseTagsFrom(s, i + 1)
        ELSE CloseTagsFrom(s, i + 1)

close_tags(content) == CloseTagsFrom(content, 1)

\* A literal of the source as text: Python string -> sequence of characters.
\* (TLC cannot index a string, so every literal is spelled out.)
S_doctype  == <<"<","!","d","o","c","t","y","p","e"," ","h","t","m","l",">">>
S_html     == <<"<","h","t","m","l">>
S_head     == <<"<","h","e","a","d",">">>
S_body     == <<"<","b","o","d","y",">">>
S_title    == <<"<","t","i","t","l","e",">">>
S_lang     == <<"l","a","n","g","=">>
S_viewport == <<"v","i","e","w","p","o","r","t">>

\* line 90: the tags that are never pushed / counted as open
self_closing ==
    { <<"b","r">>, <<"h","r">>, <<"i","m","g">>, <<"i","n","p","u","t">>,
      <<"m","e","t","a">>, <<"l","i","n","k">>, <<"a","r","e","a">>,
      <<"b","a","s","e">>, <<"c","o","l">>, <<"e","m","b","e","d">>,
      <<"s","o","u","r","c","e">>, <<"t","r","a","c","k">>, <<"w","b","r">> }

\* An entry of self.errors / self.warnings: the tuple (type, message, line).
\* The message is kept structured: its fixed wording (kind) and the values
\* the f-string interpolates (tag, n).
Issue(type, kind, tag, n, line) ==
    [type |-> type, kind |-> kind, tag |-> tag, n |-> n, line |-> line]

\* open_counts[k] = open_counts.get(k, 0) + delta, on a dict kept as the
\* sequence of its items in insertion order
DictAdd(d, k, delta) ==
    IF \E i \in 1..Len(d) : d[i].tag = k
    THEN [i \in 1..Len(d) |->
            IF d[i].tag = k THEN [tag |-> k, count |-> d[i].count + delta]
            ELSE d[i]]
    ELSE Append(d, [tag |-> k, count |-> delta])

\* lines 92-96: count the open tags that are not self-closing
RECURSIVE CountOpen(_, _)
CountOpen(d, tags) ==
    IF tags = <<>> THEN d
    ELSE LET tag_lower == Lower(Head(tags))
         IN  CountOpen(IF tag_lower \notin self_closing
                       THEN DictAdd(d, tag_lower, 1) ELSE d,
                       Tail(tags))

\* lines 98-100: subtract every close tag
RECURSIVE CountClose(_, _)
CountClose(d, tags) ==
    IF tags = <<>> THEN d
    ELSE CountClose(DictAdd(d, Lower(Head(tags)), -1), Tail(tags))

\* counts that would take the first open tag only
open_counts_first(content) ==
    CountClose(CountOpen(<<>>, IF open_tags(content) = <<>> THEN <<>>
                               ELSE <<Head(open_tags(content))>>),
               close_tags(content))

open_counts(content) ==
    CountClose(CountOpen(<<>>, open_tags(content)), close_tags(content))

\* lines 102-106: one error per tag name whose count is not zero
RECURSIVE BalanceErrors(_)
BalanceErrors(d) ==
    IF d = <<>> THEN <<>>
    ELSE LET tag == Head(d).tag
             count == Head(d).count
         IN  (IF count > 0
              THEN <<Issue("html", "Unclosed tag(s)", tag, count, 0)>>
              ELSE IF count < 0
              THEN <<Issue("html", "Extra closing tag(s)", tag, -count, 0)>>
              ELSE <<>>)
             \o BalanceErrors(Tail(d))

\* re.search(r'<html[^>]*lang=', content, re.IGNORECASE)
HasHtmlLang(s) ==
    \E i \in 1..Len(s) :
        /\ MatchAtCI(s, i, S_html)
        /\ \E j \in (i + 5)..Len(s) :
              /\ MatchAtCI(s, j, S_lang)
              /\ \A k \in (i + 5)..(j - 1) : s[k] # ">"

\* _check_html_structure: what it appends to self.errors
check_html_structure_errors(content) ==
    LET low == Lower(content)
    IN  (IF ~StartsWith(Lower(Strip(content)), S_doctype)
         THEN <<Issue("html", "Missing DOCTYPE declaration", <<>>, 0, 1)>>
         ELSE <<>>)
        \o (IF ~Contains(low, S_html)
            THEN <<Issue("html", "Missing <html> tag", <<>>, 0, 0)>> ELSE <<>>)
        \o (IF ~Contains(low, S_head)
            THEN <<Issue("html", "Missing <head> section", <<>>, 0, 0)>> ELSE <<>>)
        \o (IF ~Contains(low, S_body)
            THEN <<Issue("html", "Missing <body> section", <<>>, 0, 0)>> ELSE <<>>)
        \o (IF ~Contains(low, S_title)
            THEN <<Issue("html", "Missing <title> tag", <<>>, 0, 0)>> ELSE <<>>)
        \o BalanceErrors(open_counts(content))

\* _check_html_structure: what it appends to self.warnings
check_html_structure_warnings(content) ==
    (IF ~HasHtmlLang(content)
     THEN <<Issue("a11y", "Missing lang attribute on <html>", <<>>, 0, 0)>>
     ELSE <<>>)
    \o (IF ~Contains(Lower(content), S_viewport)
        THEN <<Issue("html", "Missing viewport meta tag", <<>>, 0, 0)>>
        ELSE <<>>)

(***************************************************************************)
(* _check_escape_sequences                                                 *)
(***************************************************************************)

\* a search by the parity of the run of backslashes before c: an odd run
\* ends with a backslash that is not escaped
HasLiteralEscape_parity(line, c) ==
    \E j \in 1..(Len(line) - 1) :
        /\ line[j] = "\\"
        /\ line[j + 1] = c
        /\ \E k \in 1..j :
              /\ \A m \in k..j : line[m] = "\\"
              /\ (k = 1 \/ line[k - 1] # "\\")
              /\ (j - k + 1) % 2 = 1

\* re.search(r'(?<!\\)\\c', line): a backslash followed by c, the backslash
\* not itself preceded by a backslash
HasLiteralEscape(line, c) ==
    \E j \in 1..(Len(line) - 1) :
        /\ line[j] = "\\"
        /\ line[j + 1] = c
        /\ (j = 1 \/ line[j - 1] # "\\")

\* an error for every occurrence of a literal \n on the line
EscapeErrorsOfLine_each(line, i) ==
    LET at == {j \in 1..(Len(line) - 1) :
                  /\ line[j] = "\\"
                  /\ line[j + 1] = "n"
                  /\ (j = 1 \/ line[j - 1] # "\\")}
    IN  [k \in 1..Cardinality(at) |->
            Issue("escape", "Literal \\n found - use <br> or <p>", <<>>, 0, i)]

\* lines 111-120, for line number i
EscapeErrorsOfLine(line, i) ==
    (IF HasLiteralEscape(line, "n")
     THEN <<Issue("escape", "Literal \\n found - use <br> or <p>", <<>>, 0, i)>>
     ELSE <<>>)
    \o (IF HasLiteralEscape(line, "t")
        THEN <<Issue("escape", "Literal \\t found - use CSS spacing", <<>>, 0, i)>>
        ELSE <<>>)
    \o (IF HasLiteralEscape(line, "r")
        THEN <<Issue("escape", "Literal \\r found - remove", <<>>, 0, i)>>
        ELSE <<>>)

RECURSIVE EscapeErrorsFrom(_, _)
EscapeErrorsFrom(lines, i) ==
    IF i > Len(lines) THEN <<>>
    ELSE EscapeErrorsOfLine(lines[i], i) \o EscapeErrorsFrom(lines, i + 1)

\* _check_escape_sequences: what it appends to self.errors
check_escape_sequences_errors(content) ==
    EscapeErrorsFrom(SplitLines(content), 1)

(***************************************************************************)
(* _check_accessibility                                                    *)
(***************************************************************************)

S_img  == <<"<","i","m","g">>
S_alt  == <<"a","l","t","=">>
S_a    == <<"<","a">>
S_aend == <<"<","/","a",">">>
S_h    == <<"<","h">>

\* re.findall(r'<img[^>]*>', content, re.IGNORECASE), from index i
RECURSIVE ImgTagsFrom(_, _)
ImgTagsFrom(s, from) ==
    LET i == FirstAt(s, from, "<")
    IN  IF i = 0 THEN <<>>
        ELSE IF MatchAtCI(s, i, S_img)
        THEN LET g == FirstAt(s, i + 4, ">")
             IN  IF g = 0 THEN ImgTagsFrom(s, i + 1)
                 ELSE <<SubSeq(s, i, g)>> \o ImgTagsFrom(s, g + 1)
        ELSE ImgTagsFrom(s, i + 1)

img_tags(content) == ImgTagsFrom(content, 1)

\* lines 126-128
RECURSIVE ImgErrors(_)
ImgErrors(imgs) ==
    IF imgs = <<>> THEN <<>>
    ELSE (IF ~Contains(Lower(Head(imgs)), S_alt)
          THEN <<Issue("a11y", "Image missing alt attribute", <<>>, 0, 0)>>
          ELSE <<>>)
         \o ImgErrors(Tail(imgs))

\* int(h) for the character a heading pattern captures
DigitValue == [c \in {"1","2","3","4","5","6"} |->
                 CASE c = "1" -> 1 [] c = "2" -> 2 [] c = "3" -> 3
                   [] c = "4" -> 4 [] c = "5" -> 5 [] c = "6" -> 6]

\* re.findall(r'<h([1-6])[^>]*>', content, re.IGNORECASE), from index i
RECURSIVE HeadingsFrom(_, _)
HeadingsFrom(s, from) ==
    LET i == FirstAt(s, from, "<")
    IN  IF i = 0 THEN <<>>
        ELSE IF MatchAtCI(s, i, S_h) /\ i + 2 <= Len(s)
                /\ s[i + 2] \in DOMAIN DigitValue
        THEN LET g == FirstAt(s, i + 3, ">")
             IN  IF g = 0 THEN HeadingsFrom(s, i + 1)
                 ELSE <<s[i + 2]>> \o HeadingsFrom(s, g + 1)
        ELSE HeadingsFrom(s, i + 1)

\* line 132: heading_levels = [int(h) for h in headings]
heading_levels(content) ==
    LET headings == HeadingsFrom(content, 1)
    IN  [i \in 1..Len(headings) |-> DigitValue[headings[i]]]

\* the character str(level) prints
LevelChar(n) == CHOOSE c \in DOMAIN DigitValue : DigitValue[c] = n

\* lines 140-142
RECURSIVE SkippedWarnings(_, _)
SkippedWarnings(levels, i) ==
    IF i > Len(levels) THEN <<>>
    ELSE (IF levels[i] > levels[i - 1] + 1
          THEN <<Issue("a11y", "Heading level skipped",
                       <<LevelChar(levels[i - 1]), LevelChar(levels[i])>>, 0, 0)>>
          ELSE <<>>)
         \o SkippedWarnings(levels, i + 1)

\* re.findall(r'<a[^>]*>([^<]*)</a>', content, re.IGNORECASE), from index i
RECURSIVE LinkTextsFrom(_, _)
LinkTextsFrom(s, from) ==
    LET i == FirstAt(s, from, "<")
    IN  IF i = 0 THEN <<>>
        ELSE IF MatchAtCI(s, i, S_a)
        THEN LET g == FirstAt(s, i + 2, ">")
                 h == IF g = 0 THEN 0 ELSE FirstAt(s, g + 1, "<")
             IN  IF h # 0 /\ MatchAtCI(s, h, S_aend)
                 THEN <<SubSeq(s, g + 1, h - 1)>> \o LinkTextsFrom(s, h + 4)
                 ELSE LinkTextsFrom(s, i + 1)
        ELSE LinkTextsFrom(s, i + 1)

\* line 153
generic_link_texts ==
    { <<"c","l","i","c","k"," ","h","e","r","e">>, <<"h","e","r","e">>,
      <<"l","i","n","k">>, <<"r","e","a","d"," ","m","o","r","e">>,
      <<"m","o","r","e">> }

\* lines 154-156
RECURSIVE GenericLinkWarnings(_)
GenericLinkWarnings(texts) ==
    IF texts = <<>> THEN <<>>
    ELSE (IF Strip(Lower(Head(texts))) \in generic_link_texts
          THEN <<Issue("a11y", "Generic link text", Head(texts), 0, 0)>>
          ELSE <<>>)
         \o GenericLinkWarnings(Tail(texts))

\* _check_accessibility: what it appends to self.errors
check_accessibility_errors(content) ==
    LET levels == heading_levels(content)
    IN  ImgErrors(img_tags(content))
        \o (IF levels # <<>> /\ CountIn(levels, 1) = 0
            THEN <<Issue("a11y", "No h1 tag found", <<>>, 0, 0)>>
            ELSE <<>>)

\* a warning for every h1 after the first
MultipleH1Warnings_each(levels) ==
    [i \in 1..(CountIn(levels, 1) - 1) |->
        Issue("a11y", "Multiple h1 tags found", <<>>, CountIn(levels, 1), 0)]

\* lines 145-147
MultipleH1Warnings(levels) ==
    IF CountIn(levels, 1) > 1
    THEN <<Issue("a11y", "Multiple h1 tags found", <<>>,
                 CountIn(levels, 1), 0)>>
    ELSE <<>>

\* _check_accessibility: what it appends to self.warnings
check_accessibility_warnings(content) ==
    LET levels == heading_levels(content)
    IN  (IF levels # <<>>
         THEN (IF levels[1] # 1
               THEN <<Issue("a11y", "First heading should be h1",
                            <<LevelChar(levels[1])>>, 0, 0)>>
               ELSE <<>>)
              \o SkippedWarnings(levels, 2)
              \o MultipleH1Warnings(levels)
         ELSE <<>>)
        \o GenericLinkWarnings(LinkTextsFrom(content, 1))

(***************************************************************************)
(* _check_placeholders, _check_controls                                    *)
(***************************************************************************)

\* re.search(r'\{\{[^}]+\}\}', line)
HasTemplatePlaceholder(line) ==
    \E i \in 1..Len(line) :
        /\ MatchAt(line, i, <<"{", "{">>)
        /\ \E m \in (i + 3)..Len(line) :
              /\ MatchAt(line, m, <<"}", "}">>)
              /\ \A k \in (i + 2)..(m - 1) : line[k] # "}"

\* lines 160-166: (pattern, desc); a literal pattern is searched with
\* re.IGNORECASE, that is in the lower-cased line
placeholders ==
    << [lit |-> <<>>, desc |-> "Template placeholder found"],
       [lit |-> <<"t","o","d","o">>, desc |-> "TODO marker found"],
       [lit |-> <<"f","i","x","m","e">>, desc |-> "FIXME marker found"],
       [lit |-> <<"x","x","x">>, desc |-> "XXX marker found"],
       [lit |-> <<"l","o","r","e","m"," ","i","p","s","u","m">>,
        desc |-> "Lorem ipsum placeholder found"] >>

\* re.search(pattern, line, re.IGNORECASE) for entry k of placeholders
PlaceholderFound(line, k) ==
    IF k = 1 THEN HasTemplatePlaceholder(line)
    ELSE Contains(Lower(line), placeholders[k].lit)

\* lines 170-172, for line number i, from pattern k on
RECURSIVE PlaceholderErrorsOfLine(_, _, _)
PlaceholderErrorsOfLine(line, i, k) ==
    IF k > Len(placeholders) THEN <<>>
    ELSE (IF PlaceholderFound(line, k)
          THEN <<Issue("placeholder", placeholders[k].desc, <<>>, 0, i)>>
          ELSE <<>>)
         \o PlaceholderErrorsOfLine(line, i, k + 1)

\* a numbering of the lines that would start at 0
RECURSIVE PlaceholderErrorsFrom_zero_based(_, _)
PlaceholderErrorsFrom_zero_based(lines, i) ==
    IF i > Len(lines) THEN <<>>
    ELSE PlaceholderErrorsOfLine(lines[i], i - 1, 1)
         \o PlaceholderErrorsFrom_zero_based(lines, i + 1)

RECURSIVE PlaceholderErrorsFrom(_, _)
PlaceholderErrorsFrom(lines, i) ==
    IF i > Len(lines) THEN <<>>
    ELSE PlaceholderErrorsOfLine(lines[i], i, 1)
         \o PlaceholderErrorsFrom(lines, i + 1)

\* _check_placeholders: what it appends to self.errors
check_placeholders_errors(content) ==
    PlaceholderErrorsFrom(SplitLines(content), 1)

S_data_content_type ==
    <<"d","a","t","a","-","c","o","n","t","e","n","t","-","t","y","p","e">>
S_print        == <<"p","r","i","n","t","(",")">>
S_window_print == <<"w","i","n","d","o","w",".","p","r","i","n","t">>

\* _check_controls: what it appends to self.warnings
check_controls_warnings(content) ==
    IF Contains(content, S_data_content_type)
       /\ ~(Contains(content, S_print) \/ Contains(content, S_window_print))
    THEN <<Issue("controls", "No print functionality detected", <<>>, 0, 0)>>
    ELSE <<>>

(***************************************************************************)
(* _calculate_stats                                                        *)
(***************************************************************************)

S_script     == <<"<","s","c","r","i","p","t">>
S_script_end == <<"<","/","s","c","r","i","p","t",">">>
S_style      == <<"<","s","t","y","l","e">>
S_style_end  == <<"<","/","s","t","y","l","e",">">>
S_href       == <<"h","r","e","f","=">>
S_src        == <<"s","r","c","=">>

\* re.sub(r'<open[^>]*>.*?close', '', s, flags=re.DOTALL | re.IGNORECASE),
\* from index i
RECURSIVE RemoveElementsFrom(_, _, _, _)
RemoveElementsFrom(s, from, open, close) ==
    LET i == FirstMatchCI(s, from, open)
        g == IF i = 0 THEN 0 ELSE FirstAt(s, i + Len(open), ">")
        j == IF g = 0 THEN 0 ELSE FirstMatchCI(s, g + 1, close)
    IN  IF i = 0 THEN SubSeq(s, from, Len(s))
        ELSE IF j = 0
        THEN SubSeq(s, from, i) \o RemoveElementsFrom(s, i + 1, open, close)
        ELSE SubSeq(s, from, i - 1)
             \o RemoveElementsFrom(s, j + Len(close), open, close)

\* re.sub(r'<[^>]+>', ' ', s), from index i
RECURSIVE ReplaceTagsFrom(_, _)
ReplaceTagsFrom(s, from) ==
    LET i == FirstAt(s, from, "<")
        g == IF i # 0 /\ i + 1 <= Len(s) /\ s[i + 1] # ">"
             THEN FirstAt(s, i + 2, ">") ELSE 0
    IN  IF i = 0 THEN SubSeq(s, from, Len(s))
        ELSE IF g = 0
        THEN SubSeq(s, from, i) \o ReplaceTagsFrom(s, i + 1)
        ELSE SubSeq(s, from, i - 1) \o <<" ">> \o ReplaceTagsFrom(s, g + 1)

\* len(re.sub(r'\s+', ' ', text).strip().split()): the number of maximal
\* runs of non-space characters
WordCount(text) ==
    Cardinality({i \in 1..Len(text) :
                    ~IsSpace(text[i]) /\ (i = 1 \/ IsSpace(text[i - 1]))})

\* lines 187-193
word_count(content) ==
    WordCount(ReplaceTagsFrom(
        RemoveElementsFrom(
            RemoveElementsFrom(content, 1, S_script, S_script_end),
            1, S_style, S_style_end),
        1))

\* re.findall(r'<h([1-6])[^>]*>([^<]*)</h\1>', content, re.IGNORECASE)
RECURSIVE StatHeadingsFrom(_, _)
StatHeadingsFrom(s, from) ==
    LET i == FirstAt(s, from, "<")
    IN  IF i = 0 THEN <<>>
        ELSE IF MatchAtCI(s, i, S_h) /\ i + 2 <= Len(s)
                /\ s[i + 2] \in DOMAIN DigitValue
        THEN LET g == FirstAt(s, i + 3, ">")
                 h == IF g = 0 THEN 0 ELSE FirstAt(s, g + 1, "<")
             IN  IF h # 0 /\ MatchAtCI(s, h, <<"<", "/", "h", s[i + 2], ">">>)
                 THEN <<[level |-> s[i + 2], text |-> SubSeq(s, g + 1, h - 1)]>>
                      \o StatHeadingsFrom(s, h + 5)
                 ELSE StatHeadingsFrom(s, i + 1)
        ELSE StatHeadingsFrom(s, i + 1)

IsQuote(c) == c \in {"\"", "'"}

\* last index of the maximal run of non-quote characters that starts at i
NonQuoteEnd(s, i) ==
    IF \E j \in i..Len(s) : IsQuote(s[j])
    THEN (CHOOSE j \in i..Len(s) :
             IsQuote(s[j]) /\ \A k \in i..(j - 1) : ~IsQuote(s[k])) - 1
    ELSE Len(s)

\* re.findall(attr + r'["\']([^"\']+)["\']', content, re.IGNORECASE),
\* attr being 'href=' or 'src=', from index i
RECURSIVE AttrValuesFrom(_, _, _)
AttrValuesFrom(s, from, attr) ==
    LET i == FirstMatchCI(s, from, attr)
    IN  IF i = 0 THEN <<>>
        ELSE IF i + Len(attr) <= Len(s) /\ IsQuote(s[i + Len(attr)])
        THEN LET b == i + Len(attr) + 1
                 e == NonQuoteEnd(s, b)
             IN  IF e >= b /\ e + 1 <= Len(s)
                 THEN <<SubSeq(s, b, e)>> \o AttrValuesFrom(s, e + 2, attr)
                 ELSE AttrValuesFrom(s, i + 1, attr)
        ELSE AttrValuesFrom(s, i + 1, attr)

\* _calculate_stats: the value it assigns to self.stats
calculate_stats(content) ==
    [word_count |-> word_count(content),
     headings   |-> StatHeadingsFrom(content, 1),
     links      |-> AttrValuesFrom(content, 1, S_href),
     images     |-> AttrValuesFrom(content, 1, S_src)]

(***************************************************************************)
(* check_links                                                             *)
(***************************************************************************)

S_http       == <<"h","t","t","p",":","/","/">>
S_https      == <<"h","t","t","p","s",":","/","/">>
S_mailto     == <<"m","a","i","l","t","o",":">>
S_tel        == <<"t","e","l",":">>
S_javascript == <<"j","a","v","a","s","c","r","i","p","t",":">>

\* lines 209-227 for one link; exists is the set of names for which
\* (base_path.parent / link).exists()
LinkIssue(content, link, exists) ==
    IF StartsWith(link, <<"#">>)
    THEN LET anchor_id == SubSeq(link, 2, Len(link))
         IN  IF ~Contains(content, <<"i","d","=","\"">> \o anchor_id \o <<"\"">>)
                /\ ~Contains(content, <<"i","d","=","'">> \o anchor_id \o <<"'">>)
             THEN [errors |-> <<>>,
                   warnings |-> <<Issue("link", "Anchor target not found", link, 0, 0)>>]
             ELSE [errors |-> <<>>, warnings |-> <<>>]
    ELSE IF StartsWith(link, S_http) \/ StartsWith(link, S_https)
    THEN [errors |-> <<>>, warnings |-> <<>>]
    ELSE IF StartsWith(link, S_mailto) \/ StartsWith(link, S_tel)
    THEN [errors |-> <<>>, warnings |-> <<>>]
    ELSE IF StartsWith(link, S_javascript)
    THEN [errors |-> <<>>,
          warnings |-> <<Issue("link", "JavaScript link", link, 0, 0)>>]
    ELSE IF link \notin exists
    THEN [errors |-> <<Issue("link", "Broken link", link, 0, 0)>>,
          warnings |-> <<>>]
    ELSE [errors |-> <<>>, warnings |-> <<>>]

RECURSIVE LinkIssuesFrom(_, _, _, _)
LinkIssuesFrom(content, links, k, exists) ==
    IF k > Len(links) THEN [errors |-> <<>>, warnings |-> <<>>]
    ELSE LET one  == LinkIssue(content, links[k], exists)
             rest == LinkIssuesFrom(content, links, k + 1, exists)
         IN  [errors |-> one.errors \o rest.errors,
              warnings |-> one.warnings \o rest.warnings]

\* check_links: what it appends to self.errors and self.warnings
check_links_issues(content, exists) ==
    LinkIssuesFrom(content, AttrValuesFrom(content, 1, S_href), 1, exists)

(***************************************************************************)
(* Documents                                                               *)
(*                                                                         *)
(* A document is a sequence of fragments; its text (what read_text        *)
(* returns) is the concatenation of their characters.  kind and name say  *)
(* what the fragment is in the document: an open tag, a close tag, a void *)
(* tag, or a whole element with its content (a heading, a paragraph, a    *)
(* link, a script whose body holds tag-like text).  The validator reads   *)
(* only the text; kind and name are used to state the claims.             *)
(***************************************************************************)

Fragments ==
    [
      \* '<a>'
      A_OPEN |-> [kind |-> "open", name |-> <<"a">>, chars |->
        <<"<","a",">">>],
      \* '</a>'
      A_CLOSE |-> [kind |-> "close", name |-> <<"a">>, chars |->
        <<"<","/","a",">">>],
      \* '<B>'
      B_OPEN |-> [kind |-> "open", name |-> <<"b">>, chars |->
        <<"<","B",">">>],
      \* '</b>'
      B_CLOSE |-> [kind |-> "close", name |-> <<"b">>, chars |->
        <<"<","/","b",">">>],
      \* '<br>'
      BR |-> [kind |-> "void", name |-> <<"b","r">>, chars |->
        <<"<","b","r",">">>],
      \* '<h1>T</h1>'
      H1 |-> [kind |-> "element", name |-> <<"h","1">>, chars |->
        <<"<","h","1",">","T","<","/","h","1",">">>],
      \* '<h2>t</h2>'
      H2 |-> [kind |-> "element", name |-> <<"h","2">>, chars |->
        <<"<","h","2",">","t","<","/","h","2",">">>],
      \* "<script>if(a<b&&c>d)s='<img><h2>';</script>"
      SCR |-> [kind |-> "element", name |-> <<"s","c","r","i","p","t">>, chars |->
        <<"<","s","c","r","i","p","t",">","i","f","(","a","<","b","&","&",
          "c",">","d",")","s","=","'","<","i","m","g",">","<","h","2",">",
          "'",";","<","/","s","c","r","i","p","t",">">>],
      \* '<!DOCTYPE html>\n<html lang="en">\n<head><meta name="viewport"><title>T</title></head>\n<body>\n'
      PRO_FULL |-> [kind |-> "prologue", name |-> <<>>, chars |->
        <<"<","!","D","O","C","T","Y","P","E"," ","h","t","m","l",">","\n",
          "<","h","t","m","l"," ","l","a","n","g","=","\"","e","n","\"",">",
          "\n","<","h","e","a","d",">","<","m","e","t","a"," ","n","a","m",
          "e","=","\"","v","i","e","w","p","o","r","t","\"",">","<","t","i",
          "t","l","e",">","T","<","/","t","i","t","l","e",">","<","/","h",
          "e","a","d",">","\n","<","b","o","d","y",">","\n">>],
      \* '<!doctype html>\n<html>\n<head><title>T</title></head>\n<body>\n'
      PRO_PLAIN |-> [kind |-> "prologue", name |-> <<>>, chars |->
        <<"<","!","d","o","c","t","y","p","e"," ","h","t","m","l",">","\n",
          "<","h","t","m","l",">","\n","<","h","e","a","d",">","<","t","i",
          "t","l","e",">","T","<","/","t","i","t","l","e",">","<","/","h",
          "e","a","d",">","\n","<","b","o","d","y",">","\n">>],
      \* '</body>\n</html>\n'
      EPI |-> [kind |-> "epilogue", name |-> <<>>, chars |->
        <<"<","/","b","o","d","y",">","\n","<","/","h","t","m","l",">",
          "\n">>],
      \* '<a href="b.html">next</a>'
      LINK_B |-> [kind |-> "element", name |-> <<"a">>, chars |->
        <<"<","a"," ","h","r","e","f","=","\"","b",".","h","t","m","l","\"",
          ">","n","e","x","t","<","/","a",">">>],
      \* '<a href="#top">here</a>'
      LINK_TOP |-> [kind |-> "element", name |-> <<"a">>, chars |->
        <<"<","a"," ","h","r","e","f","=","\"","#","t","o","p","\"",">","h",
          "e","r","e","<","/","a",">">>],
      \* '<p>two words</p>'
      PARA |-> [kind |-> "element", name |-> <<"p">>, chars |->
        <<"<","p",">","t","w","o"," ","w","o","r","d","s","<","/","p",">">>],
      \* '<img src="x.png">'
      IMG_NONE |-> [kind |-> "img", name |-> <<"i","m","g">>, chars |->
        <<"<","i","m","g"," ","s","r","c","=","\"","x",".","p","n","g","\"",
          ">">>],
      \* '<img src="x.png" alt="">'
      IMG_EMPTY |-> [kind |-> "img", name |-> <<"i","m","g">>, chars |->
        <<"<","i","m","g"," ","s","r","c","=","\"","x",".","p","n","g","\"",
          " ","a","l","t","=","\"","\"",">">>],
      \* '<img src="x.png" data-alt="a">'
      IMG_DATA |-> [kind |-> "img", name |-> <<"i","m","g">>, chars |->
        <<"<","i","m","g"," ","s","r","c","=","\"","x",".","p","n","g","\"",
          " ","d","a","t","a","-","a","l","t","=","\"","a","\"",">">>],
      \* '<IMG alt = "a" src="x.png">'
      IMG_SPACED |-> [kind |-> "img", name |-> <<"i","m","g">>, chars |->
        <<"<","I","M","G"," ","a","l","t"," ","="," ","\"","a","\""," ","s",
          "r","c","=","\"","x",".","p","n","g","\"",">">>],
      \* '<h3>t</h3>'
      H3 |-> [kind |-> "element", name |-> <<"h","3">>, chars |->
        <<"<","h","3",">","t","<","/","h","3",">">>],
      \* 'plain text\n'
      L_TEXT |-> [kind |-> "line", name |-> <<>>, chars |->
        <<"p","l","a","i","n"," ","t","e","x","t","\n">>],
      \* '<p>a\\nb</p>\n'
      L_NL1 |-> [kind |-> "line", name |-> <<>>, chars |->
        <<"<","p",">","a","\\","n","b","<","/","p",">","\n">>],
      \* 'x\\ny\\nz\n'
      L_NL2 |-> [kind |-> "line", name |-> <<>>, chars |->
        <<"x","\\","n","y","\\","n","z","\n">>],
      \* 'a\\\\nb\n'
      L_ESCAPED |-> [kind |-> "line", name |-> <<>>, chars |->
        <<"a","\\","\\","n","b","\n">>],
      \* 'col\\tcol\n'
      L_TAB |-> [kind |-> "line", name |-> <<>>, chars |->
        <<"c","o","l","\\","t","c","o","l","\n">>],
      \* '<!-- TODO -->\n'
      L_TODO1 |-> [kind |-> "line", name |-> <<>>, chars |->
        <<"<","!","-","-"," ","T","O","D","O"," ","-","-",">","\n">>],
      \* 'TODO and TODO\n'
      L_TODO2 |-> [kind |-> "line", name |-> <<>>, chars |->
        <<"T","O","D","O"," ","a","n","d"," ","T","O","D","O","\n">>],
      \* 'Dear {{name}} {{title}}\n'
      L_TPL |-> [kind |-> "line", name |-> <<>>, chars |->
        <<"D","e","a","r"," ","{","{","n","a","m","e","}","}"," ","{","{",
          "t","i","t","l","e","}","}","\n">>],
      \* 'Lorem ipsum dolor\n'
      L_LOREM |-> [kind |-> "line", name |-> <<>>, chars |->
        <<"L","o","r","e","m"," ","i","p","s","u","m"," ","d","o","l","o",
          "r","\n">>],
      \* 'FIXME XXX\n'
      L_FIXME_XXX |-> [kind |-> "line", name |-> <<>>, chars |->
        <<"F","I","X","M","E"," ","X","X","X","\n">>],
      \* 'TODO a\\nb\n'
      L_NL_TODO |-> [kind |-> "line", name |-> <<>>, chars |->
        <<"T","O","D","O"," ","a","\\","n","b","\n">>],
      \* '<h2 id="top">t</h2><a href="#top">up</a>'
      K_FRAG_OK |-> [kind |-> "link", name |-> <<"a">>, chars |->
        <<"<","h","2"," ","i","d","=","\"","t","o","p","\"",">","t","<","/",
          "h","2",">","<","a"," ","h","r","e","f","=","\"","#","t","o","p",
          "\"",">","u","p","<","/","a",">">>],
      \* '<a href="#end">down</a>'
      K_FRAG_MISSING |-> [kind |-> "link", name |-> <<"a">>, chars |->
        <<"<","a"," ","h","r","e","f","=","\"","#","e","n","d","\"",">","d",
          "o","w","n","<","/","a",">">>],
      \* '<div data-id="nav"></div><a href="#nav">menu</a>'
      K_FRAG_DATA |-> [kind |-> "link", name |-> <<"a">>, chars |->
        <<"<","d","i","v"," ","d","a","t","a","-","i","d","=","\"","n","a",
          "v","\"",">","<","/","d","i","v",">","<","a"," ","h","r","e","f",
          "=","\"","#","n","a","v","\"",">","m","e","n","u","<","/","a",">">>],
      \* '<a href="http://e.org/">e</a>'
      K_HTTP |-> [kind |-> "link", name |-> <<"a">>, chars |->
        <<"<","a"," ","h","r","e","f","=","\"","h","t","t","p",":","/","/",
          "e",".","o","r","g","/","\"",">","e","<","/","a",">">>],
      \* '<a href="https://e.org/b.html">e</a>'
      K_HTTPS |-> [kind |-> "link", name |-> <<"a">>, chars |->
        <<"<","a"," ","h","r","e","f","=","\"","h","t","t","p","s",":","/",
          "/","e",".","o","r","g","/","b",".","h","t","m","l","\"",">","e",
          "<","/","a",">">>],
      \* '<a href="mailto:a@e.org">a</a>'
      K_MAILTO |-> [kind |-> "link", name |-> <<"a">>, chars |->
        <<"<","a"," ","h","r","e","f","=","\"","m","a","i","l","t","o",":",
          "a","@","e",".","o","r","g","\"",">","a","<","/","a",">">>],
      \* '<a href="tel:555">t</a>'
      K_TEL |-> [kind |-> "link", name |-> <<"a">>, chars |->
        <<"<","a"," ","h","r","e","f","=","\"","t","e","l",":","5","5","5",
          "\"",">","t","<","/","a",">">>],
      \* '<a href="javascript:void(0)">j</a>'
      K_JS |-> [kind |-> "link", name |-> <<"a">>, chars |->
        <<"<","a"," ","h","r","e","f","=","\"","j","a","v","a","s","c","r",
          "i","p","t",":","v","o","i","d","(","0",")","\"",">","j","<","/",
          "a",">">>],
      \* '<a href="b.html">next</a>'
      K_REL_B |-> [kind |-> "link", name |-> <<"a">>, chars |->
        <<"<","a"," ","h","r","e","f","=","\"","b",".","h","t","m","l","\"",
          ">","n","e","x","t","<","/","a",">">>],
      \* '<a href="b.html#top">next</a>'
      K_REL_B_TOP |-> [kind |-> "link", name |-> <<"a">>, chars |->
        <<"<","a"," ","h","r","e","f","=","\"","b",".","h","t","m","l","#",
          "t","o","p","\"",">","n","e","x","t","<","/","a",">">>],
      \* '<script>s='<a href="x.html"><img src="y.png"><h2>t</h2>';</script>'
      SCR_TEXT |-> [kind |-> "element", name |-> <<"s","c","r","i","p","t">>, chars |->
        <<"<","s","c","r","i","p","t",">","s","=","'","<","a"," ","h","r",
          "e","f","=","\"","x",".","h","t","m","l","\"",">","<","i","m","g",
          " ","s","r","c","=","\"","y",".","p","n","g","\"",">","<","h","2",
          ">","t","<","/","h","2",">","'",";","<","/","s","c","r","i","p",
          "t",">">>],
      \* '<style>/* <img src="bg.png"> */ p{color:red}</style>'
      STYLE_TEXT |-> [kind |-> "element", name |-> <<"s","t","y","l","e">>, chars |->
        <<"<","s","t","y","l","e",">","/","*"," ","<","i","m","g"," ","s",
          "r","c","=","\"","b","g",".","p","n","g","\"",">"," ","*","/"," ",
          "p","{","c","o","l","o","r",":","r","e","d","}","<","/","s","t",
          "y","l","e",">">>],
      \* '<p>'
      P_OPEN |-> [kind |-> "open", name |-> <<"p">>, chars |->
        <<"<","p",">">>],
      \* '<p class="lead">'
      P_CLASS |-> [kind |-> "open", name |-> <<"p">>, chars |->
        <<"<","p"," ","c","l","a","s","s","=","\"","l","e","a","d","\"",">">>],
      \* '</p>'
      P_CLOSE |-> [kind |-> "close", name |-> <<"p">>, chars |->
        <<"<","/","p",">">>],
      \* '<strong>Bold</strong>'
      STRONG |-> [kind |-> "element", name |-> <<"s","t","r","o","n","g">>, chars |->
        <<"<","s","t","r","o","n","g",">","B","o","l","d","<","/","s","t",
          "r","o","n","g",">">>],
      \* '<B>x</B>'
      B_X |-> [kind |-> "element", name |-> <<"b">>, chars |->
        <<"<","B",">","x","<","/","B",">">>],
      \* '<em>italic</em>'
      EM |-> [kind |-> "element", name |-> <<"e","m">>, chars |->
        <<"<","e","m",">","i","t","a","l","i","c","<","/","e","m",">">>],
      \* '<i class="c">y</i>'
      I_Y |-> [kind |-> "element", name |-> <<"i">>, chars |->
        <<"<","i"," ","c","l","a","s","s","=","\"","c","\"",">","y","<","/",
          "i",">">>],
      \* '<strong><em>n</em></strong>'
      STRONG_EM |-> [kind |-> "element", name |-> <<"s","t","r","o","n","g">>, chars |->
        <<"<","s","t","r","o","n","g",">","<","e","m",">","n","<","/","e",
          "m",">","<","/","s","t","r","o","n","g",">">>],
      \* ' and '
      T_AND |-> [kind |-> "text", name |-> <<>>, chars |->
        <<" ","a","n","d"," ">>],
      \* '.'
      T_DOT |-> [kind |-> "text", name |-> <<>>, chars |->
        <<".">>],
      \* 'a &amp; b'
      T_AMP |-> [kind |-> "text", name |-> <<>>, chars |->
        <<"a"," ","&","a","m","p",";"," ","b">>],
      \* '<li>one</li>'
      LI |-> [kind |-> "element", name |-> <<"l","i">>, chars |->
        <<"<","l","i",">","o","n","e","<","/","l","i",">">>],
      \* '<img src="x.png" alt="pic">'
      IMG_ALT |-> [kind |-> "img", name |-> <<"i","m","g">>, chars |->
        <<"<","i","m","g"," ","s","r","c","=","\"","x",".","p","n","g","\"",
          " ","a","l","t","=","\"","p","i","c","\"",">">>],
      \* '<!DOCTYPE html>\n<html lang="en">\n<head><title>T</title></head>\n<body class="x">\n'
      PRO_BODY_ATTR |-> [kind |-> "prologue", name |-> <<>>, chars |->
        <<"<","!","D","O","C","T","Y","P","E"," ","h","t","m","l",">","\n",
          "<","h","t","m","l"," ","l","a","n","g","=","\"","e","n","\"",">",
          "\n","<","h","e","a","d",">","<","t","i","t","l","e",">","T","<",
          "/","t","i","t","l","e",">","<","/","h","e","a","d",">","\n","<",
          "b","o","d","y"," ","c","l","a","s","s","=","\"","x","\"",">","\n">>],
      \* '<!DOCTYPE html>\n<html>\n<head data-x="1"><title>T</title></head>\n<body>\n'
      PRO_HEAD_ATTR |-> [kind |-> "prologue", name |-> <<>>, chars |->
        <<"<","!","D","O","C","T","Y","P","E"," ","h","t","m","l",">","\n",
          "<","h","t","m","l",">","\n","<","h","e","a","d"," ","d","a","t",
          "a","-","x","=","\"","1","\"",">","<","t","i","t","l","e",">","T",
          "<","/","t","i","t","l","e",">","<","/","h","e","a","d",">","\n",
          "<","b","o","d","y",">","\n">>],
      \* '<!DOCTYPE html>\n<html>\n<head><title lang="en">T</title></head>\n<body>\n'
      PRO_TITLE_ATTR |-> [kind |-> "prologue", name |-> <<>>, chars |->
        <<"<","!","D","O","C","T","Y","P","E"," ","h","t","m","l",">","\n",
          "<","h","t","m","l",">","\n","<","h","e","a","d",">","<","t","i",
          "t","l","e"," ","l","a","n","g","=","\"","e","n","\"",">","T","<",
          "/","t","i","t","l","e",">","<","/","h","e","a","d",">","\n","<",
          "b","o","d","y",">","\n">>],
      \* 'a\\\\nb\n'
      L_RUN2_N |-> [kind |-> "line", name |-> <<>>, chars |->
        <<"a","\\","\\","n","b","\n">>],
      \* 'a\\\\\\nb\n'
      L_RUN3_N |-> [kind |-> "line", name |-> <<>>, chars |->
        <<"a","\\","\\","\\","n","b","\n">>],
      \* '\\\\t\n'
      L_RUN2_T |-> [kind |-> "line", name |-> <<>>, chars |->
        <<"\\","\\","t","\n">>],
      \* 'x\\\\\\r\n'
      L_RUN3_R |-> [kind |-> "line", name |-> <<>>, chars |->
        <<"x","\\","\\","\\","r","\n">>],
      \* '\\\\\\\\n\n'
      L_RUN4_N |-> [kind |-> "line", name |-> <<>>, chars |->
        <<"\\","\\","\\","\\","n","\n">>]
    ]

\* filepath.read_text(): the text of a document
RECURSIVE Content(_)
Content(doc) ==
    IF doc = <<>> THEN <<>>
    ELSE Fragments[Head(doc)].chars \o Content(Tail(doc))

(***************************************************************************)
(* ContentValidator                                                        *)
(***************************************************************************)

VARIABLES
    doc,        \* the document a single check is applied to (SpecChecks)
    fs,         \* the directory: file name -> document
    validator,  \* the ContentValidator instance in use
    returned,   \* what the last validate_file call returned
    last,       \* the path the last validate_file call was given
    calls,      \* method calls made on the instance by a library client
    out,        \* standard output: the items printed so far
    pc,         \* where the run is
    html_files, \* validate_directory: the files still to validate
    all_passed, \* validate_directory: its local all_passed
    exit_code,  \* main's return value (-1 while running)
    bundler,    \* the ContentBundler instance in use
    rendered,   \* the renderings made so far: target, input and output
    document    \* the paragraphs of the rich document under construction

\* the state of the exporters (bundle_content.py, convert_to_docx.py)
exportVars == <<bundler, rendered, document>>

vars == <<doc, fs, validator, returned, last, calls, out, pc, html_files,
          all_passed, exit_code, bundler, rendered, document>>

\* no ContentBundler has been constructed
NoBundler == [source_path |-> <<>>, is_directory |-> FALSE]

\* no exporter has run
ExportIdle ==
    /\ bundler = NoBundler
    /\ rendered = <<>>
    /\ document = <<>>

\* a constructor that would hand out the lists of the instance before it
ContentValidator_init_shared(verbose) ==
    [validator EXCEPT !.verbose = verbose]

\* lines 34-43
ContentValidator_init(verbose) ==
    [verbose  |-> verbose,
     errors   |-> <<>>,
     warnings |-> <<>>,
     stats    |-> [word_count |-> 0, headings |-> <<>>, links |-> <<>>,
                   images |-> <<>>]]

\* a validity that would also count the warnings
validate_file_result_strict(self) ==
    Len(self.errors) = 0 /\ Len(self.warnings) = 0

\* line 61
validate_file_result(self) == Len(self.errors) = 0

\* a run of the checks that would stop at the first check that records an
\* error
validate_file_first_failure(self, filepath) ==
    IF filepath \notin DOMAIN fs
    THEN [self |-> [self EXCEPT !.errors =
                       Append(@, Issue("file", "File not found", filepath, 0, 0))],
          ret  |-> FALSE]
    ELSE LET content == Content(fs[filepath])
             html == check_html_structure_errors(content)
             after ==
                IF html # <<>>
                THEN [self EXCEPT
                        !.errors = @ \o html,
                        !.warnings = @ \o check_html_structure_warnings(content)]
                ELSE [self EXCEPT
                        !.errors = @ \o check_escape_sequences_errors(content)
                                     \o check_accessibility_errors(content)
                                     \o check_placeholders_errors(content),
                        !.warnings = @ \o check_html_structure_warnings(content)
                                       \o check_accessibility_warnings(content)
                                       \o check_controls_warnings(content),
                        !.stats = calculate_stats(content)]
         IN  [self |-> after, ret |-> validate_file_result(after)]

\* lines 45-61: the instance after the call, and the value returned
validate_file(self, filepath) ==
    IF filepath \notin DOMAIN fs
    THEN [self |-> [self EXCEPT !.errors =
                       Append(@, Issue("file", "File not found", filepath, 0, 0))],
          ret  |-> FALSE]
    ELSE LET content == Content(fs[filepath])
             after ==
                [self EXCEPT
                   !.errors = @ \o check_html_structure_errors(content)
                                \o check_escape_sequences_errors(content)
                                \o check_accessibility_errors(content)
                                \o check_placeholders_errors(content),
                   !.warnings = @ \o check_html_structure_warnings(content)
                                  \o check_accessibility_warnings(content)
                                  \o check_controls_warnings(content),
                   !.stats = calculate_stats(content)]
         IN  [self |-> after, ret |-> validate_file_result(after)]

\* lines 204-227: the instance after check_links(content, base_path); a
\* relative link resolves against base_path.parent, the directory
check_links(self, content) ==
    LET found == check_links_issues(content, DOMAIN fs)
    IN  [self EXCEPT !.errors = @ \o found.errors,
                     !.warnings = @ \o found.warnings]

\* One line of the report: its fixed wording, the numbers it prints and,
\* for an error or warning line, the issue it prints
NoIssue == Issue("", "", <<>>, 0, 0)
Line(text, n, m) == [text |-> text, n |-> n, m |-> m, issue |-> NoIssue]
IssueLine(text, issue) == [text |-> text, n |-> 0, m |-> 0, issue |-> issue]

\* a status that would look at the warnings first
report_status_warnings_first(self) ==
    IF self.warnings # <<>>
    THEN Line("Status: PASSED WITH WARNINGS", Len(self.warnings), 0)
    ELSE IF self.errors # <<>>
    THEN Line("Status: FAILED", Len(self.errors), Len(self.warnings))
    ELSE Line("Status: PASSED", 0, 0)

\* lines 264-269
report_status(self) ==
    IF self.errors # <<>>
    THEN Line("Status: FAILED", Len(self.errors), Len(self.warnings))
    ELSE IF self.warnings # <<>>
    THEN Line("Status: PASSED WITH WARNINGS", Len(self.warnings), 0)
    ELSE Line("Status: PASSED", 0, 0)

\* lines 229-272: the lines report() joins
report(self) ==
    << Line("====", 0, 0), Line("CONTENT VALIDATION REPORT", 0, 0),
       Line("====", 0, 0), Line("", 0, 0),
       Line("Statistics:", 0, 0),
       Line("Word count", self.stats.word_count, 0),
       Line("Headings", Len(self.stats.headings), 0),
       Line("Links", Len(self.stats.links), 0),
       Line("Images", Len(self.stats.images), 0),
       Line("", 0, 0) >>
    \o (IF self.errors # <<>>
        THEN <<Line("ERRORS", Len(self.errors), 0)>>
             \o [i \in 1..Len(self.errors) |-> IssueLine("error", self.errors[i])]
             \o <<Line("", 0, 0)>>
        ELSE <<>>)
    \o (IF self.warnings # <<>>
        THEN <<Line("WARNINGS", Len(self.warnings), 0)>>
             \o [i \in 1..Len(self.warnings) |->
                    IssueLine("warning", self.warnings[i])]
             \o <<Line("", 0, 0)>>
        ELSE <<>>)
    \o << Line("----", 0, 0), report_status(self), Line("====", 0, 0) >>

\* An item of standard output: one print() call
Printed(what, path, n, lines) ==
    [what |-> what, path |-> path, n |-> n, lines |-> lines]

(***************************************************************************)
(* The directory and the runs                                              *)
(***************************************************************************)

MaxFrags == 4   \* fragments in a document a single check is applied to
MaxFiles == 2   \* files the directory may hold
MaxCalls == 3   \* method calls a library client makes on one instance

\* candidate file names, all matching rglob("*.html")
FileNamePool ==
    << <<"a",".","h","t","m","l">>, <<"b",".","h","t","m","l">>,
       <<"c",".","h","t","m","l">>, <<"d",".","h","t","m","l">> >>

FileNames ==
    {FileNamePool[i] : i \in 1..(IF MaxFiles < 4 THEN MaxFiles ELSE 4)}

\* a path that names nothing, and the directory itself
MissingPath == <<"g","o","n","e",".","h","t","m","l">>
DirPath == <<".">>

\* the documents the files hold: a clean page, one with warnings only, one
\* whose link resolves only if b.html exists, one without any skeleton,
\* one with link warnings, one with a single error and no warning
CorpusList ==
    << <<"PRO_FULL", "H1", "PARA", "EPI">>,
       <<"PRO_PLAIN", "H1", "EPI">>,
       <<"PRO_FULL", "H1", "LINK_B", "EPI">>,
       <<"H2", "PARA">>,
       <<"PRO_FULL", "H1", "LINK_TOP", "EPI">>,
       <<"PRO_FULL", "A_OPEN", "H1", "EPI">> >>

\* the documents found in the directories main() is run on
Corpus == {CorpusList[1], CorpusList[2], CorpusList[3], CorpusList[4]}

\* the directories main() is run on
FileSystems ==
    UNION {[names -> Corpus] : names \in SUBSET FileNames}

\* the directory a library client works in: one file per document
LibraryNames ==
    << <<"a",".","h","t","m","l">>, <<"b",".","h","t","m","l">>,
       <<"c",".","h","t","m","l">>, <<"d",".","h","t","m","l">>,
       <<"e",".","h","t","m","l">>, <<"f",".","h","t","m","l">> >>

LibraryFiles == {LibraryNames[i] : i \in 1..Len(CorpusList)}

LibraryFileSystem ==
    [name \in LibraryFiles |->
        CorpusList[CHOOSE i \in 1..Len(CorpusList) : LibraryNames[i] = name]]

\* the fragments single checks are tried on
CheckFragments == {"A_OPEN", "A_CLOSE", "B_OPEN", "B_CLOSE", "BR", "H1", "H2", "SCR"}

CheckDocs == UNION {[1..n -> CheckFragments] : n \in 0..MaxFrags}

\* every order in which rglob may list the files of a set
Orders(names) ==
    {q \in [1..Cardinality(names) -> names] :
        \A i, j \in 1..Cardinality(names) : i # j => q[i] # q[j]}

\* before any instance is constructed
NoInstance ==
    [verbose  |-> FALSE,
     errors   |-> <<>>,
     warnings |-> <<>>,
     stats    |-> [word_count |-> 0, headings |-> <<>>, links |-> <<>>,
                   images |-> <<>>]]

NoCall == [op |-> "none", path |-> <<>>]

\* Either main() is about to run on some directory, or a library client
\* is about to construct an instance.
Init ==
    /\ doc = <<>>
    /\ \/ pc = "start" /\ fs \in FileSystems
       \/ pc = "library" /\ fs = LibraryFileSystem
    /\ validator = NoInstance
    /\ returned = "none"
    /\ last = NoCall
    /\ calls = 0
    /\ out = <<>>
    /\ html_files = <<>>
    /\ all_passed = TRUE
    /\ exit_code = -1
    /\ ExportIdle

BoolStr(b) == IF b THEN "True" ELSE "False"

(***************************************************************************)
(* A library client: constructs one instance and calls its methods        *)
(***************************************************************************)

\* ContentValidator(), verbose left at its default
Construct ==
    /\ pc = "library"
    /\ validator' = ContentValidator_init(FALSE)
    /\ pc' = "client"
    /\ UNCHANGED <<exportVars, doc, fs, returned, last, calls, out, html_files,
                   all_passed, exit_code>>

ValidateFile(filepath) ==
    /\ pc = "client"
    /\ calls < MaxCalls
    /\ LET r == validate_file(validator, filepath)
       IN  /\ validator' = r.self
           /\ returned' = BoolStr(r.ret)
    /\ last' = [op |-> "validate_file", path |-> filepath]
    /\ calls' = calls + 1
    /\ UNCHANGED <<exportVars, doc, fs, out, pc, html_files, all_passed, exit_code>>

\* check_links on the content of the file just validated, as main() calls it
CheckLinks(filepath) ==
    /\ pc = "client"
    /\ calls < MaxCalls
    /\ filepath \in DOMAIN fs
    /\ last = [op |-> "validate_file", path |-> filepath]
    /\ validator' = check_links(validator, Content(fs[filepath]))
    /\ last' = [op |-> "check_links", path |-> filepath]
    /\ calls' = calls + 1
    /\ UNCHANGED <<exportVars, doc, fs, returned, out, pc, html_files, all_passed,
                   exit_code>>

Report ==
    /\ pc = "client"
    /\ calls < MaxCalls
    /\ out' = Append(out, Printed("report", <<>>, 0, report(validator)))
    /\ last' = [op |-> "report", path |-> <<>>]
    /\ calls' = calls + 1
    /\ UNCHANGED <<exportVars, doc, fs, validator, returned, pc, html_files, all_passed,
                   exit_code>>

(***************************************************************************)
(* main() and validate_directory(), run without --verbose, which only     *)
(* adds a printed line per external link                                   *)
(***************************************************************************)

\* lines 314-316
MainNotFound(path) ==
    /\ pc = "start"
    /\ path \notin DOMAIN fs \cup {DirPath}
    /\ out' = Append(out, Printed("Error: Path not found", path, 0, <<>>))
    /\ exit_code' = 1
    /\ pc' = "exit"
    /\ UNCHANGED <<exportVars, doc, fs, validator, returned, last, calls, html_files,
                   all_passed>>

\* lines 322-328: a file, --word-count
MainWordCount(path) ==
    /\ pc = "start"
    /\ path \in DOMAIN fs
    /\ LET stats == calculate_stats(Content(fs[path]))
       IN  /\ validator' = [ContentValidator_init(FALSE) EXCEPT !.stats = stats]
           /\ out' = Append(out, Printed("Word count", <<>>, stats.word_count, <<>>))
    /\ exit_code' = 0
    /\ pc' = "exit"
    /\ UNCHANGED <<exportVars, doc, fs, returned, last, calls, html_files, all_passed>>

\* line 333
main_success(self) == Len(self.errors) = 0

\* lines 322-335: a file, neither --all nor --word-count
MainFile(path) ==
    /\ pc = "start"
    /\ path \in DOMAIN fs
    /\ LET r == validate_file(ContentValidator_init(FALSE), path)
           v == check_links(r.self, Content(fs[path]))
       IN  /\ validator' = v
           /\ returned' = BoolStr(r.ret)
           /\ out' = Append(out, Printed("report", <<>>, 0, report(v)))
           /\ exit_code' = IF main_success(v) THEN 0 ELSE 1
    /\ last' = [op |-> "check_links", path |-> path]
    /\ pc' = "exit"
    /\ UNCHANGED <<exportVars, doc, fs, calls, html_files, all_passed>>

\* lines 318-320, 277-283: a directory, or a file with --all (its parent);
\* rglob lists the files in an order the platform chooses
MainDirectory(path) ==
    /\ pc = "start"
    /\ path \in DOMAIN fs \cup {DirPath}
    /\ DOMAIN fs # {}
    /\ html_files' \in Orders(DOMAIN fs)
    /\ all_passed' = TRUE
    /\ pc' = "directory"
    /\ UNCHANGED <<exportVars, doc, fs, validator, returned, last, calls, out, exit_code>>

\* lines 279-281, 335: no HTML file in the directory
MainEmptyDirectory ==
    /\ pc = "start"
    /\ DOMAIN fs = {}
    /\ out' = Append(out, Printed("No HTML files found in", DirPath, 0, <<>>))
    /\ exit_code' = 1
    /\ pc' = "exit"
    /\ UNCHANGED <<exportVars, doc, fs, validator, returned, last, calls, html_files,
                   all_passed>>

\* lines 285-296: one pass of the loop
ValidateNext ==
    /\ pc = "directory"
    /\ html_files # <<>>
    /\ LET filepath == Head(html_files)
           r == validate_file(ContentValidator_init(FALSE), filepath)
           v == check_links(r.self, Content(fs[filepath]))
       IN  /\ validator' = v
           /\ returned' = BoolStr(r.ret)
           /\ out' = out \o << Printed("Validating", filepath, 0, <<>>),
                               Printed("report", <<>>, 0, report(v)) >>
           /\ all_passed' = IF v.errors # <<>> THEN FALSE ELSE all_passed
           /\ last' = [op |-> "check_links", path |-> filepath]
    /\ html_files' = Tail(html_files)
    /\ UNCHANGED <<exportVars, doc, fs, calls, pc, exit_code>>

\* lines 298, 335
DirectoryReturn ==
    /\ pc = "directory"
    /\ html_files = <<>>
    /\ exit_code' = IF all_passed THEN 0 ELSE 1
    /\ pc' = "exit"
    /\ UNCHANGED <<exportVars, doc, fs, validator, returned, last, calls, out, html_files,
                   all_passed>>

Paths == FileNames \cup {MissingPath, DirPath}

Next ==
    \/ Construct
    \/ \E filepath \in LibraryFiles \cup {MissingPath} : ValidateFile(filepath)
    \/ \E filepath \in LibraryFiles : CheckLinks(filepath)
    \/ Report
    \/ \E path \in Paths : MainNotFound(path)
    \/ \E path \in Paths : MainWordCount(path)
    \/ \E path \in Paths : MainFile(path)
    \/ \E path \in Paths : MainDirectory(path)
    \/ MainEmptyDirectory
    \/ ValidateNext
    \/ DirectoryReturn

Spec == Init /\ [][Next]_vars

(***************************************************************************)
(* Single checks applied to one document by a fresh instance               *)
(***************************************************************************)

InitChecks ==
    /\ doc \in CheckDocs
    /\ fs = <<>>
    /\ validator = NoInstance
    /\ returned = "none"
    /\ last = NoCall
    /\ calls = 0
    /\ out = <<>>
    /\ pc = "input"
    /\ html_files = <<>>
    /\ all_passed = TRUE
    /\ exit_code = -1
    /\ ExportIdle

\* _check_html_structure(content) on a new instance
CheckHtmlStructure ==
    /\ pc = "input"
    /\ validator' =
          [ContentValidator_init(FALSE) EXCEPT
              !.errors = @ \o check_html_structure_errors(Content(doc)),
              !.warnings = @ \o check_html_structure_warnings(Content(doc))]
    /\ pc' = "html"
    /\ UNCHANGED <<exportVars, doc, fs, returned, last, calls, out, html_files,
                   all_passed, exit_code>>

\* _check_accessibility(content) on a new instance
CheckAccessibility ==
    /\ pc = "input"
    /\ validator' =
          [ContentValidator_init(FALSE) EXCEPT
              !.errors = @ \o check_accessibility_errors(Content(doc)),
              !.warnings = @ \o check_accessibility_warnings(Content(doc))]
    /\ pc' = "a11y"
    /\ UNCHANGED <<exportVars, doc, fs, returned, last, calls, out, html_files,
                   all_passed, exit_code>>

NextChecks == CheckHtmlStructure \/ CheckAccessibility

SpecChecks == InitChecks /\ [][NextChecks]_vars

(***************************************************************************)
(* The nesting of a document, read off its fragments: open pushes a frame, *)
(* close pops down to the innermost frame of its name (closing the frames  *)
(* above it implicitly) or, when no frame has its name, is extra; a void   *)
(* tag and a whole element leave the stack as it is.                       *)
(***************************************************************************)

InnermostOpen(stack, name) ==
    IF \E i \in 1..Len(stack) : stack[i] = name
    THEN CHOOSE i \in 1..Len(stack) :
            stack[i] = name /\ \A k \in (i + 1)..Len(stack) : stack[k] # name
    ELSE 0

RECURSIVE NestFrom(_, _, _)
NestFrom(d, i, st) ==
    IF i > Len(d) THEN st
    ELSE LET f == Fragments[d[i]]
             at == InnermostOpen(st.open, f.name)
         IN  NestFrom(d, i + 1,
                IF f.kind = "open"
                THEN [st EXCEPT !.open = Append(@, f.name)]
                ELSE IF f.kind = "close"
                THEN IF at = 0
                     THEN [st EXCEPT !.extra = Append(@, f.name)]
                     ELSE [st EXCEPT
                             !.open = SubSeq(@, 1, at - 1),
                             !.implicit = @ \o SubSeq(st.open, at + 1,
                                                      Len(st.open))]
                ELSE st)

NothingOpen == [open |-> <<>>, extra |-> <<>>, implicit |-> <<>>]

Nesting(d) == NestFrom(d, 1, NothingOpen)

TagNames == {Fragments[f].name : f \in CheckFragments}

S_unclosed == "Unclosed tag(s)"
S_extra == "Extra closing tag(s)"

\* the defects of the given kinds the issues count for a tag
RECURSIVE DefectCount(_, _, _)
DefectCount(issues, kinds, tag) ==
    IF issues = <<>> THEN 0
    ELSE (IF Head(issues).kind \in kinds /\ Head(issues).tag = tag
          THEN Head(issues).n ELSE 0)
         + DefectCount(Tail(issues), kinds, tag)

KindCount(issues, kind) ==
    Cardinality({i \in 1..Len(issues) : issues[i].kind = kind})

\* the document without its script and style elements
IsRawText(f) ==
    Fragments[f].kind = "element"
    /\ Fragments[f].name \in {<<"s","c","r","i","p","t">>,
                              <<"s","t","y","l","e">>}

WithoutRawText(d) == SelectSeq(d, LAMBDA f : ~IsRawText(f))

HeadingFragments(d, names) ==
    {i \in 1..Len(d) : Fragments[d[i]].kind = "element"
                       /\ Fragments[d[i]].name \in names}

(***************************************************************************)
(* Tag balance                                                             *)
(***************************************************************************)

\* the documents whose text holds markup only: no script, no style
MarkupOnly(d) == WithoutRawText(d) = d

\* C1: a close tag with no matching open element before it is recorded as
\* an extra closing tag, whatever open tags follow it (stated for the
\* documents without script and style elements)
C1_ExtraClosingRecorded ==
    pc = "html" /\ MarkupOnly(doc) =>
        \A name \in TagNames :
            DefectCount(validator.errors, {S_extra}, name)
                >= CountIn(Nesting(doc).extra, name)

\* C2: every element a close tag closes implicitly (it was opened after the
\* ancestor the close tag matches and is still open) is recorded as a
\* structural defect (stated for the documents without script and style
\* elements)
C2_ImplicitCloseRecorded ==
    pc = "html" /\ MarkupOnly(doc) =>
        \A name \in TagNames :
            DefectCount(validator.errors, {S_unclosed, S_extra}, name)
                >= CountIn(Nesting(doc).implicit, name)

\* C3: the unclosed defects recorded for a tag name are as many as the
\* elements of that name still open at the end of the document (stated for
\* the documents without script and style elements)
C3_UnclosedCounted ==
    pc = "html" /\ MarkupOnly(doc) =>
        \A name \in TagNames :
            DefectCount(validator.errors, {S_unclosed}, name)
                = CountIn(Nesting(doc).open, name)

\* C4: a properly nested document gets no Unclosed and no Extra closing
\* error
C4_WellNestedNoDefect ==
    pc = "html" /\ Nesting(doc) = NothingOpen =>
        /\ KindCount(validator.errors, S_unclosed) = 0
        /\ KindCount(validator.errors, S_extra) = 0

\* C5: the text inside a script or style element adds no tag-balance error,
\* no missing-alt error and no heading issue: the document gets the issues
\* it gets without these elements
C5_RawTextNotMarkup ==
    /\ pc = "html" =>
          validator.errors
              = check_html_structure_errors(Content(WithoutRawText(doc)))
    /\ pc = "a11y" =>
          /\ validator.errors
                = check_accessibility_errors(Content(WithoutRawText(doc)))
          /\ validator.warnings
                = check_accessibility_warnings(Content(WithoutRawText(doc)))

(***************************************************************************)
(* Headings                                                                *)
(***************************************************************************)

S_no_h1 == "No h1 tag found"

\* C8: a document without any heading element gets exactly one 'no h1'
\* error, a document with exactly one h1 gets none
C8_NoH1Error ==
    pc = "a11y" =>
        /\ HeadingFragments(doc, {<<"h","1">>, <<"h","2">>}) = {}
              => KindCount(validator.errors, S_no_h1) = 1
        /\ Cardinality(HeadingFragments(doc, {<<"h","1">>})) = 1
              => KindCount(validator.errors, S_no_h1) = 0

(***************************************************************************)
(* Results and reports                                                     *)
(***************************************************************************)

\* the reports printed so far, and the files announced before them
Reports == {i \in 1..Len(out) : out[i].what = "report"}
Announced == {i \in 1..Len(out) : out[i].what = "Validating"}

\* main() has validated one file; main() has validated a directory
IsFileRun == pc = "exit" /\ Len(out) = 1 /\ out[1].what = "report"
IsDirectoryRun == pc = "exit" /\ Announced # {}

\* the last thing printed is the report of the instance as it is now
ReportedNow ==
    /\ out # <<>>
    /\ out[Len(out)].what = "report"
    /\ pc = "client" => last.op = "report"

StatusTexts ==
    {"Status: PASSED", "Status: PASSED WITH WARNINGS", "Status: FAILED"}
StatsTexts == {"Statistics:", "Word count", "Headings", "Links", "Images"}

Where(lines, texts) == {i \in 1..Len(lines) : lines[i].text \in texts}
HasLine(lines, text) == Where(lines, {text}) # {}
AllBefore(A, B) == \A i \in A, j \in B : i < j
StatusOf(lines) == lines[CHOOSE i \in Where(lines, StatusTexts) : TRUE].text
IssuesOf(lines, text) ==
    LET sel == SelectSeq(lines, LAMBDA l : l.text = text)
    IN  [i \in 1..Len(sel) |-> sel[i].issue]

\* statistics, then errors, then warnings, then one status line
ReportOrdered(lines) ==
    LET stats    == Where(lines, StatsTexts)
        errors   == Where(lines, {"ERRORS", "error"})
        warnings == Where(lines, {"WARNINGS", "warning"})
        status   == Where(lines, StatusTexts)
    IN  /\ Cardinality(status) = 1
        /\ Cardinality(stats) = Cardinality(StatsTexts)
        /\ AllBefore(stats, errors \cup warnings \cup status)
        /\ AllBefore(errors, warnings \cup status)
        /\ AllBefore(warnings, status)

\* the status line says what the lines above it hold
StatusRight(lines) ==
    LET e == HasLine(lines, "error")
        w == HasLine(lines, "warning")
    IN  /\ StatusOf(lines) = "Status: FAILED" <=> e
        /\ StatusOf(lines) = "Status: PASSED WITH WARNINGS" <=> (w /\ ~e)
        /\ StatusOf(lines) = "Status: PASSED" <=> (~w /\ ~e)

\* the report lists the errors and warnings of the instance, all of them
ReportTells(lines, self) ==
    /\ IssuesOf(lines, "error") = self.errors
    /\ IssuesOf(lines, "warning") = self.warnings

\* C6: validate_file returns True, and main() exits with status 0, exactly
\* when the error list is empty, whatever the warnings
C6_ValidIffNoErrors ==
    /\ last.op = "validate_file" =>
          (returned = "True" <=> validator.errors = <<>>)
    /\ IsFileRun => (exit_code = 0 <=> validator.errors = <<>>)
    /\ IsDirectoryRun =>
          (exit_code = 0 <=>
              \A i \in Reports : ~HasLine(out[i].lines, "error"))

\* a file with warnings and no error has been found valid
C6_ValidWithWarnings ==
    /\ last.op = "validate_file"
    /\ returned = "True"
    /\ validator.warnings # <<>>

\* C7: a report is the statistics, then the errors, then the warnings, then
\* exactly one status line, which is FAILED iff there is an error, PASSED
\* WITH WARNINGS iff there are warnings and no error, PASSED iff there is
\* neither; a run that printed a FAILED report exits with a non-zero status
C7_ReportAndExit ==
    /\ \A i \in Reports :
          ReportOrdered(out[i].lines) /\ StatusRight(out[i].lines)
    /\ ReportedNow => ReportTells(out[Len(out)].lines, validator)
    /\ pc = "exit" =>
          \A i \in Reports :
              StatusOf(out[i].lines) = "Status: FAILED" => exit_code > 0

\* a run has printed a FAILED report listing errors and warnings and exited
C7_FailedReportExit ==
    /\ pc = "exit"
    /\ exit_code = 1
    /\ \E i \in Reports :
          /\ StatusOf(out[i].lines) = "Status: FAILED"
          /\ HasLine(out[i].lines, "error")
          /\ HasLine(out[i].lines, "warning")

\* what validating the file by itself gives
AloneResult(filepath) == validate_file(NoInstance, filepath)

\* C9: after validate_file the instance holds the errors, warnings and
\* statistics of that file alone and returns what it returns for that file
\* alone, whatever the instance validated before
C9_NoCarryOver ==
    last.op = "validate_file" =>
        LET alone == AloneResult(last.path)
        IN  /\ validator.errors = alone.self.errors
            /\ validator.warnings = alone.self.warnings
            /\ validator.stats = alone.self.stats
            /\ returned = BoolStr(alone.ret)

\* the report of the file validated by itself in its directory
AloneReport(filepath) ==
    report(check_links(AloneResult(filepath).self, Content(fs[filepath])))

\* C10: a directory run prints one report per file, each the report of that
\* file alone, in whatever order the files are listed
C10_IndependentReports ==
    /\ \A i \in Announced :
          /\ i < Len(out)
          /\ out[i + 1].what = "report"
          /\ out[i + 1].lines = AloneReport(out[i].path)
    /\ IsDirectoryRun =>
          /\ Cardinality(Reports) = Cardinality(DOMAIN fs)
          /\ Cardinality(Announced) = Cardinality(DOMAIN fs)
          /\ {out[i].path : i \in Announced} = DOMAIN fs

\* a directory run has printed a FAILED report and a PASSED report
C10_FailedAndPassed ==
    /\ IsDirectoryRun
    /\ \E i, j \in Reports :
          /\ StatusOf(out[i].lines) = "Status: FAILED"
          /\ StatusOf(out[j].lines) = "Status: PASSED"

(***************************************************************************)
(* _check_accessibility applied to documents of images and headings        *)
(***************************************************************************)

MaxElems == 3   \* fragments in such a document

A11yFragments ==
    {"IMG_NONE", "IMG_EMPTY", "IMG_DATA", "IMG_SPACED", "H1", "H2", "H3",
     "SCR"}

A11yDocs == UNION {[1..n -> A11yFragments] : n \in 0..MaxElems}

InitA11y ==
    /\ doc \in A11yDocs
    /\ fs = <<>>
    /\ validator = NoInstance
    /\ returned = "none"
    /\ last = NoCall
    /\ calls = 0
    /\ out = <<>>
    /\ pc = "input"
    /\ html_files = <<>>
    /\ all_passed = TRUE
    /\ exit_code = -1
    /\ ExportIdle

SpecA11y == InitA11y /\ [][CheckAccessibility]_vars

\* the img fragments that carry an alt attribute
ImgWithAlt == {"IMG_EMPTY", "IMG_SPACED"}

ImgsWithoutAlt(d) ==
    {i \in 1..Len(d) : Fragments[d[i]].kind = "img" /\ d[i] \notin ImgWithAlt}

S_missing_alt == "Image missing alt attribute"

\* C11: the missing-alt errors are as many as the img tags without an alt
\* attribute: one for each of them, none for an img tag that has one, an
\* empty one included (stated for the documents without script and style
\* elements)
C11_MissingAltPerImage ==
    pc = "a11y" /\ MarkupOnly(doc) =>
        KindCount(validator.errors, S_missing_alt)
            = Cardinality(ImgsWithoutAlt(doc))

(***************************************************************************)
(* _check_escape_sequences and _check_placeholders applied to documents of *)
(* lines                                                                   *)
(***************************************************************************)

MaxLines == 3   \* lines in such a document

LineFragments ==
    {"L_TEXT", "L_NL1", "L_NL2", "L_ESCAPED", "L_TAB", "L_TODO1", "L_TODO2",
     "L_TPL", "L_LOREM", "L_FIXME_XXX", "L_NL_TODO"}

LineDocs == UNION {[1..n -> LineFragments] : n \in 0..MaxLines}

InitLines ==
    /\ doc \in LineDocs
    /\ fs = <<>>
    /\ validator = NoInstance
    /\ returned = "none"
    /\ last = NoCall
    /\ calls = 0
    /\ out = <<>>
    /\ pc = "input"
    /\ html_files = <<>>
    /\ all_passed = TRUE
    /\ exit_code = -1
    /\ ExportIdle

\* _check_escape_sequences(content) on a new instance
CheckEscapeSequences ==
    /\ pc = "input"
    /\ validator' =
          [ContentValidator_init(FALSE) EXCEPT
              !.errors = @ \o check_escape_sequences_errors(Content(doc))]
    /\ pc' = "escape"
    /\ UNCHANGED <<exportVars, doc, fs, returned, last, calls, out, html_files,
                   all_passed, exit_code>>

\* _check_placeholders(content) on a new instance
CheckPlaceholders ==
    /\ pc = "input"
    /\ validator' =
          [ContentValidator_init(FALSE) EXCEPT
              !.errors = @ \o check_placeholders_errors(Content(doc))]
    /\ pc' = "placeholder"
    /\ UNCHANGED <<exportVars, doc, fs, returned, last, calls, out, html_files,
                   all_passed, exit_code>>

NextLines == CheckEscapeSequences \/ CheckPlaceholders

SpecLines == InitLines /\ [][NextLines]_vars

\* what each line holds: the escape sequences written out as a backslash
\* and a letter (n, t), and the placeholder markers, by their messages
S_literal_n == "Literal \\n found - use <br> or <p>"
S_literal_t == "Literal \\t found - use CSS spacing"
S_template  == "Template placeholder found"
S_todo      == "TODO marker found"
S_fixme     == "FIXME marker found"
S_xxx       == "XXX marker found"
S_lorem     == "Lorem ipsum placeholder found"

LineHolds ==
    [L_TEXT |-> {}, L_NL1 |-> {S_literal_n}, L_NL2 |-> {S_literal_n},
     L_ESCAPED |-> {}, L_TAB |-> {S_literal_t}, L_TODO1 |-> {S_todo},
     L_TODO2 |-> {S_todo}, L_TPL |-> {S_template}, L_LOREM |-> {S_lorem},
     L_FIXME_XXX |-> {S_fixme, S_xxx}, L_NL_TODO |-> {S_literal_n, S_todo}]

\* the errors that carry the line number i
ErrorsAtLine(issues, i) == SelectSeq(issues, LAMBDA e : e.line = i)

\* C12: a line that holds a literal \n and no other escape sequence or
\* placeholder gets exactly one error with its 1-indexed number, however
\* often the sequence occurs on it: one from the escape check, none from
\* the placeholder check
C12_OneErrorPerEscapeLine ==
    \A i \in 1..Len(doc) :
        LineHolds[doc[i]] = {S_literal_n} =>
            /\ pc = "escape" =>
                  /\ Len(ErrorsAtLine(validator.errors, i)) = 1
                  /\ ErrorsAtLine(validator.errors, i)[1].kind = S_literal_n
            /\ pc = "placeholder" =>
                  ErrorsAtLine(validator.errors, i) = <<>>

\* the escape check has run on a document whose second line holds the
\* sequence twice
C12_TwiceOnSecondLine ==
    /\ pc = "escape"
    /\ Len(doc) >= 2
    /\ doc[2] = "L_NL2"
    /\ Len(ErrorsAtLine(validator.errors, 2)) = 1

PlaceholderKinds == {S_template, S_todo, S_fixme, S_xxx, S_lorem}

\* C13: every marker a line holds ({{...}}, TODO, FIXME, XXX, Lorem ipsum)
\* is reported by exactly one error that carries the line's 1-indexed
\* number, however often the marker occurs on the line; every error carries
\* the number of a line
C13_OneErrorPerMarkerLine ==
    pc = "placeholder" =>
        /\ \A i \in 1..Len(doc) :
              \A k \in PlaceholderKinds :
                  k \in LineHolds[doc[i]] =>
                      KindCount(ErrorsAtLine(validator.errors, i), k) = 1
        /\ \A j \in 1..Len(validator.errors) :
              validator.errors[j].line \in 1..Len(doc)

\* the placeholder check has run on a document whose second line holds a
\* marker twice and whose third line holds two markers
C13_RepeatedAndMixed ==
    /\ pc = "placeholder"
    /\ Len(doc) = 3
    /\ doc[2] = "L_TODO2"
    /\ doc[3] = "L_FIXME_XXX"
    /\ Len(ErrorsAtLine(validator.errors, 2)) = 1
    /\ Len(ErrorsAtLine(validator.errors, 3)) = 2

(***************************************************************************)
(* check_links applied to documents of links                               *)
(***************************************************************************)

MaxLinks == 2   \* fragments in such a document

LinkFragments ==
    {"K_FRAG_OK", "K_FRAG_MISSING", "K_FRAG_DATA", "K_HTTP", "K_HTTPS",
     "K_MAILTO", "K_TEL", "K_JS", "K_REL_B", "K_REL_B_TOP"}

LinkDocs == UNION {[1..n -> LinkFragments] : n \in 0..MaxLinks}

\* the directory of the document: b.html is there, or not
LinkFileSystems ==
    UNION {[names -> {CorpusList[1]}] : names \in SUBSET {FileNamePool[2]}}

InitLinks ==
    /\ doc \in LinkDocs
    /\ fs \in LinkFileSystems
    /\ validator = NoInstance
    /\ returned = "none"
    /\ last = NoCall
    /\ calls = 0
    /\ out = <<>>
    /\ pc = "input"
    /\ html_files = <<>>
    /\ all_passed = TRUE
    /\ exit_code = -1
    /\ ExportIdle

\* check_links(content, base_path) on a new instance
CheckLinksOnly ==
    /\ pc = "input"
    /\ validator' = check_links(ContentValidator_init(FALSE), Content(doc))
    /\ pc' = "links"
    /\ UNCHANGED <<exportVars, doc, fs, returned, last, calls, out, html_files,
                   all_passed, exit_code>>

SpecLinks == InitLinks /\ [][CheckLinksOnly]_vars

\* what each link is: a fragment link whose id some element of the document
\* carries or no element carries, an external or contact link, a javascript
\* link, a relative link to the file b.html
LinkIs ==
    [K_FRAG_OK |-> "fragment found", K_FRAG_MISSING |-> "fragment missing",
     K_FRAG_DATA |-> "fragment missing", K_HTTP |-> "external",
     K_HTTPS |-> "external", K_MAILTO |-> "contact", K_TEL |-> "contact",
     K_JS |-> "javascript", K_REL_B |-> "relative",
     K_REL_B_TOP |-> "relative"]

LinksThat(d, what) == {i \in 1..Len(d) : LinkIs[d[i]] \in what}

\* C14: a fragment link gives a warning exactly when no element carries its
\* id, a javascript link gives a warning, an external or contact link gives
\* nothing, any other link gives an error exactly when its target does not
\* exist in the directory of the document
C14_LinksClassified ==
    pc = "links" =>
        /\ Len(validator.warnings)
              = Cardinality(LinksThat(doc, {"fragment missing", "javascript"}))
        /\ Len(validator.errors)
              = IF FileNamePool[2] \in DOMAIN fs THEN 0
                ELSE Cardinality(LinksThat(doc, {"relative"}))

(***************************************************************************)
(* Heading hierarchy                                                       *)
(***************************************************************************)

\* the levels of the heading elements of a document, in document order
HeadingLevelOf == [H1 |-> 1, H2 |-> 2, H3 |-> 3]

DocLevels(d) ==
    LET hs == SelectSeq(d, LAMBDA f : f \in DOMAIN HeadingLevelOf)
    IN  [i \in 1..Len(hs) |-> HeadingLevelOf[hs[i]]]

\* the pairs of consecutive headings whose level rises by more than one
SkippedPairs(levels) ==
    LET at == SelectSeq([i \in 1..(Len(levels) - 1) |-> i],
                        LAMBDA i : levels[i + 1] > levels[i] + 1)
    IN  [k \in 1..Len(at) |-> <<levels[at[k]], levels[at[k] + 1]>>]

S_skipped == "Heading level skipped"
S_multiple_h1 == "Multiple h1 tags found"

\* the pairs of levels the 'heading level skipped' warnings name
WarnedPairs(issues) ==
    LET ws == SelectSeq(issues, LAMBDA w : w.kind = S_skipped)
    IN  [k \in 1..Len(ws) |->
            <<DigitValue[ws[k].tag[1]], DigitValue[ws[k].tag[2]]>>]

\* C15: the 'heading level skipped' warnings are, in order, the pairs of
\* consecutive headings of the document whose level rises by more than
\* one: one warning for each such pair, none for any other pair
C15_SkippedPairsWarned ==
    pc = "a11y" => WarnedPairs(validator.warnings) = SkippedPairs(DocLevels(doc))

\* C16: a document with two or more h1 headings gets exactly one 'multiple
\* h1' warning and no 'no h1' error
C16_OneMultipleH1Warning ==
    pc = "a11y" /\ CountIn(DocLevels(doc), 1) >= 2 =>
        /\ KindCount(validator.warnings, S_multiple_h1) = 1
        /\ KindCount(validator.errors, S_no_h1) = 0

\* the check has run on a document with three h1 headings
C16_ThreeH1 ==
    /\ pc = "a11y"
    /\ CountIn(DocLevels(doc), 1) = 3
    /\ KindCount(validator.warnings, S_multiple_h1) = 1

(***************************************************************************)
(* _calculate_stats applied to documents with script and style elements    *)
(***************************************************************************)

MaxParts == 3   \* fragments in such a document

StatsFragments == {"H1", "PARA", "LINK_B", "IMG_NONE", "SCR_TEXT", "STYLE_TEXT"}

StatsDocs == UNION {[1..n -> StatsFragments] : n \in 0..MaxParts}

InitStats ==
    /\ doc \in StatsDocs
    /\ fs = <<>>
    /\ validator = NoInstance
    /\ returned = "none"
    /\ last = NoCall
    /\ calls = 0
    /\ out = <<>>
    /\ pc = "input"
    /\ html_files = <<>>
    /\ all_passed = TRUE
    /\ exit_code = -1
    /\ ExportIdle

\* _calculate_stats on a fresh instance
CalculateStats ==
    /\ pc = "input"
    /\ validator' = [ContentValidator_init(FALSE) EXCEPT
                        !.stats = calculate_stats(Content(doc))]
    /\ pc' = "stats"
    /\ UNCHANGED <<exportVars, doc, fs, returned, last, calls, out, html_files,
                   all_passed, exit_code>>

SpecStats == InitStats /\ [][CalculateStats]_vars

\* what each fragment holds outside script and style elements
Holds ==
    [f \in StatsFragments |->
        CASE f = "H1"       -> [words |-> 1, headings |-> 1, links |-> 0, images |-> 0]
          [] f = "PARA"     -> [words |-> 2, headings |-> 0, links |-> 0, images |-> 0]
          [] f = "LINK_B"   -> [words |-> 1, headings |-> 0, links |-> 1, images |-> 0]
          [] f = "IMG_NONE" -> [words |-> 0, headings |-> 0, links |-> 0, images |-> 1]
          [] OTHER          -> [words |-> 0, headings |-> 0, links |-> 0, images |-> 0]]

RECURSIVE Tally(_)
Tally(d) ==
    IF d = <<>> THEN [words |-> 0, headings |-> 0, links |-> 0, images |-> 0]
    ELSE LET h == Holds[Head(d)]
             t == Tally(Tail(d))
         IN  [words    |-> h.words + t.words,
              headings |-> h.headings + t.headings,
              links    |-> h.links + t.links,
              images   |-> h.images + t.images]

\* C17: the word, heading, link and image counts of the statistics are
\* those of the document outside its script and style elements: nothing
\* inside a script or style element is counted
C17_StatsSkipRawText ==
    pc = "stats" =>
        /\ validator.stats.word_count = Tally(doc).words
        /\ Len(validator.stats.headings) = Tally(doc).headings
        /\ Len(validator.stats.links) = Tally(doc).links
        /\ Len(validator.stats.images) = Tally(doc).images

(***************************************************************************)
(* bundle_content.py: ContentBundler and its renderers                     *)
(***************************************************************************)

\* lines 43-45 (is_directory: whether the path names a directory)
ContentBundler_init(source_path, is_dir) ==
    [source_path |-> source_path, is_directory |-> is_dir]

\* the statement next applied to the value x has got: x is evaluated once,
\* before next is
Then(x, next(_)) == CHOOSE r \in {next(v) : v \in {x}} : TRUE

\* re.sub('<name[^>]*>([^<]*)</name>', pre + r'\1' + post, s,
\* flags=re.IGNORECASE) from index from; open is '<name', close '</name>'
RECURSIVE SubElementFrom(_, _, _, _, _, _)
SubElementFrom(s, from, open, close, pre, post) ==
    LET i == FirstMatchCI(s, from, open)
        g == IF i = 0 THEN 0 ELSE FirstAt(s, i + Len(open), ">")
        h == IF g = 0 THEN 0 ELSE FirstAt(s, g + 1, "<")
    IN  IF i = 0 THEN SubSeq(s, from, Len(s))
        ELSE IF h # 0 /\ MatchAtCI(s, h, close)
        THEN SubSeq(s, from, i - 1) \o pre \o SubSeq(s, g + 1, h - 1) \o post
             \o SubElementFrom(s, h + Len(close), open, close, pre, post)
        ELSE SubSeq(s, from, i)
             \o SubElementFrom(s, i + 1, open, close, pre, post)

\* re.sub('<name[^>]*>', repl, s, flags=re.IGNORECASE) from index from;
\* open is '<name'
RECURSIVE SubOpenTagFrom(_, _, _, _)
SubOpenTagFrom(s, from, open, repl) ==
    LET i == FirstMatchCI(s, from, open)
        g == IF i = 0 THEN 0 ELSE FirstAt(s, i + Len(open), ">")
    IN  IF i = 0 \/ g = 0 THEN SubSeq(s, from, Len(s))
        ELSE SubSeq(s, from, i - 1) \o repl
             \o SubOpenTagFrom(s, g + 1, open, repl)

\* re.sub(lit, repl, s, flags=re.IGNORECASE) for a literal pattern, from
\* index from
RECURSIVE SubLiteralFrom(_, _, _, _)
SubLiteralFrom(s, from, lit, repl) ==
    LET i == FirstMatchCI(s, from, lit)
    IN  IF i = 0 THEN SubSeq(s, from, Len(s))
        ELSE SubSeq(s, from, i - 1) \o repl
             \o SubLiteralFrom(s, i + Len(lit), lit, repl)

\* last index of the maximal \s run that starts at i (i - 1 when empty)
SpaceEnd(s, i) ==
    IF \E j \in i..Len(s) : ~IsSpace(s[j])
    THEN (CHOOSE j \in i..Len(s) :
             ~IsSpace(s[j]) /\ \A k \in i..(j - 1) : IsSpace(s[k])) - 1
    ELSE Len(s)

\* re.sub(r'<name\s*/?>', repl, s, flags=re.IGNORECASE) from index from;
\* open is '<name'
RECURSIVE SubBreakFrom(_, _, _, _)
SubBreakFrom(s, from, open, repl) ==
    LET i == FirstMatchCI(s, from, open)
        k == IF i = 0 THEN 0 ELSE SpaceEnd(s, i + Len(open)) + 1
        e == IF i = 0 THEN 0
             ELSE IF MatchAt(s, k, <<"/", ">">>) THEN k + 1
             ELSE IF MatchAt(s, k, <<">">>) THEN k
             ELSE 0
    IN  IF i = 0 THEN SubSeq(s, from, Len(s))
        ELSE IF e # 0
        THEN SubSeq(s, from, i - 1) \o repl
             \o SubBreakFrom(s, e + 1, open, repl)
        ELSE SubSeq(s, from, i) \o SubBreakFrom(s, i + 1, open, repl)

S_div          == <<"<","d","i","v">>
S_div_end      == <<"<","/","d","i","v",">">>
S_class_controls ==
    <<"c","l","a","s","s","=","\"","c","o","n","t","r","o","l","s","\"">>

\* re.sub(r'<div[^>]*class="controls"[^>]*>.*?</div>', '', s,
\* flags=re.DOTALL | re.IGNORECASE) from index from
RECURSIVE RemoveControlsFrom(_, _)
RemoveControlsFrom(s, from) ==
    LET i == FirstMatchCI(s, from, S_div)
        g == IF i = 0 THEN 0 ELSE FirstAt(s, i + Len(S_div), ">")
        c == IF g = 0 THEN FALSE
             ELSE \E k \in (i + Len(S_div))..(g - Len(S_class_controls)) :
                     MatchAtCI(s, k, S_class_controls)
        j == IF c THEN FirstMatchCI(s, g + 1, S_div_end) ELSE 0
    IN  IF i = 0 THEN SubSeq(s, from, Len(s))
        ELSE IF j # 0
        THEN SubSeq(s, from, i - 1)
             \o RemoveControlsFrom(s, j + Len(S_div_end))
        ELSE SubSeq(s, from, i) \o RemoveControlsFrom(s, i + 1)

\* '#' * i
Hashes(i) == [k \in 1..i |-> "#"]

\* for i in range(1, 7): re.sub(f'<h{i}[^>]*>([^<]*)</h{i}>',
\*     lambda m: '\n' + '#' * i + ' ' + m.group(1) + '\n', ...), from level i
RECURSIVE ConvertHeadings(_, _)
ConvertHeadings(s, i) ==
    IF i > 6 THEN s
    ELSE Then(SubElementFrom(s, 1, <<"<", "h", LevelChar(i)>>,
                             <<"<", "/", "h", LevelChar(i), ">">>,
                             <<"\n">> \o Hashes(i) \o <<" ">>, <<"\n">>),
              LAMBDA t : ConvertHeadings(t, i + 1))

\* re.sub(r'<[^>]+>', '', s) from index from
RECURSIVE RemoveTagsFrom(_, _)
RemoveTagsFrom(s, from) ==
    LET i == FirstAt(s, from, "<")
        g == IF i # 0 /\ i + 1 <= Len(s) /\ s[i + 1] # ">"
             THEN FirstAt(s, i + 2, ">") ELSE 0
    IN  IF i = 0 THEN SubSeq(s, from, Len(s))
        ELSE IF g = 0
        THEN SubSeq(s, from, i) \o RemoveTagsFrom(s, i + 1)
        ELSE SubSeq(s, from, i - 1) \o RemoveTagsFrom(s, g + 1)

\* the character references html.unescape resolves in the documents of the
\* model: &amp; &lt; &gt; &quot; &#39;, with or without the semicolon
CharRefs ==
    <<[ref |-> <<"a","m","p">>,     char |-> "&"],
      [ref |-> <<"l","t">>,         char |-> "<"],
      [ref |-> <<"g","t">>,         char |-> ">"],
      [ref |-> <<"q","u","o","t">>, char |-> "\""],
      [ref |-> <<"#","3","9">>,     char |-> "'"]>>

\* html.unescape(s) from index from
RECURSIVE UnescapeFrom(_, _)
UnescapeFrom(s, from) ==
    LET i == FirstAt(s, from, "&")
        rs == {r \in 1..Len(CharRefs) : MatchAt(s, i + 1, CharRefs[r].ref)}
    IN  IF i = 0 THEN SubSeq(s, from, Len(s))
        ELSE IF rs # {}
        THEN LET r == CharRefs[CHOOSE x \in rs : TRUE]
                 e == i + Len(r.ref)
             IN  SubSeq(s, from, i - 1) \o <<r.char>>
                 \o UnescapeFrom(s, IF MatchAt(s, e + 1, <<";">>)
                                    THEN e + 2 ELSE e + 1)
        ELSE SubSeq(s, from, i) \o UnescapeFrom(s, i + 1)

\* last index of the maximal run of newlines that starts at i
NewlineEnd(s, i) ==
    IF \E j \in i..Len(s) : s[j] # "\n"
    THEN (CHOOSE j \in i..Len(s) :
             s[j] # "\n" /\ \A k \in i..(j - 1) : s[k] = "\n") - 1
    ELSE Len(s)

\* re.sub(r'\n{3,}', '\n\n', s) from index from
RECURSIVE CollapseNewlinesFrom(_, _)
CollapseNewlinesFrom(s, from) ==
    LET i == FirstAt(s, from, "\n")
        e == NewlineEnd(s, i)
    IN  IF i = 0 THEN SubSeq(s, from, Len(s))
        ELSE SubSeq(s, from, i - 1)
             \o (IF e - i + 1 >= 3 THEN <<"\n", "\n">> ELSE SubSeq(s, i, e))
             \o CollapseNewlinesFrom(s, e + 1)

\* lines 138-140 and 186-188: script, style and the controls block removed
WithoutScripts(html) ==
    Then(Then(RemoveElementsFrom(html, 1, S_script, S_script_end),
              LAMBDA s : RemoveElementsFrom(s, 1, S_style, S_style_end)),
         LAMBDA s : RemoveControlsFrom(s, 1))

\* lines 163-165 and 235-237
CleanUp(text) ==
    Then(Then(UnescapeFrom(text, 1), LAMBDA s : CollapseNewlinesFrom(s, 1)),
         LAMBDA s : Strip(s))

\* lines 157-160 and 228-232
ConvertBreaks(text) ==
    Then(Then(SubBreakFrom(text, 1, <<"<","b","r">>, <<"\n">>),
              LAMBDA s : SubBreakFrom(s, 1, <<"<","h","r">>,
                                      <<"\n","-","-","-","\n">>)),
         LAMBDA s : RemoveTagsFrom(s, 1))

\* lines 146-147 and 208-209
ConvertParagraphs(text) ==
    Then(SubOpenTagFrom(text, 1, <<"<","p">>, <<"\n">>),
         LAMBDA s : SubLiteralFrom(s, 1, <<"<","/","p",">">>, <<"\n">>))

\* the character U+2022 of line 151
Bullet == "U+2022"

\* the name of the source file at the head of the text, which this renderer
\* would take from the instance
html_to_text_headed(self, html) ==
    <<"=", "=", "=", " ">> \o self.source_path
    \o <<" ", "=", "=", "=", "\n">> \o html

\* lines 150-151
TextLists(text) ==
    Then(SubOpenTagFrom(text, 1, <<"<","l","i">>, <<"\n", Bullet, " ">>),
         LAMBDA s : SubLiteralFrom(s, 1, <<"<","/","l","i",">">>, <<>>))

\* _html_to_text, lines 135-166
html_to_text(self, html) ==
    Then(Then(Then(Then(Then(WithoutScripts(html),
                             LAMBDA s : ConvertHeadings(s, 1)),
                        LAMBDA s : ConvertParagraphs(s)),
                   LAMBDA s : TextLists(s)),
              LAMBDA s : ConvertBreaks(s)),
         LAMBDA s : CleanUp(s))

NoMatch == [a |-> <<>>, b |-> <<>>, end |-> 0]

S_a_open == <<"<","a">>
S_a_end  == <<"<","/","a",">">>

\* the match of r'<a[^>]*href=["\']([^"\']+)["\'][^>]*>([^<]*)</a>' that
\* starts at i (s[i:] starts with '<a'): its groups and its last index, the
\* greedy [^>]* taking the last href= of the tag the rest can match from
LinkAt(s, i) ==
    LET g0  == FirstAt(s, i + 2, ">")
        lim == IF g0 = 0 THEN Len(s) ELSE g0 - 1
        Try(k) ==
            LET b == k + Len(S_href) + 1
                e == NonQuoteEnd(s, b)
                g == FirstAt(s, e + 2, ">")
                h == IF g = 0 THEN 0 ELSE FirstAt(s, g + 1, "<")
            IN  IF /\ MatchAtCI(s, k, S_href)
                   /\ b - 1 <= Len(s) /\ IsQuote(s[b - 1])
                   /\ e >= b /\ e + 1 <= Len(s)
                   /\ h # 0 /\ MatchAtCI(s, h, S_a_end)
                THEN [a |-> SubSeq(s, b, e), b |-> SubSeq(s, g + 1, h - 1),
                      end |-> h + Len(S_a_end) - 1]
                ELSE NoMatch
        ks == {k \in (i + 2)..lim : Try(k).end # 0}
    IN  IF ks = {} THEN NoMatch
        ELSE Try(CHOOSE k \in ks : \A x \in ks : x <= k)

\* line 201: re.sub(<the link pattern>, r'[\2](\1)', s, flags=re.IGNORECASE)
\* from index from
RECURSIVE SubLinksFrom(_, _)
SubLinksFrom(s, from) ==
    LET i == FirstMatchCI(s, from, S_a_open)
        m == IF i = 0 THEN NoMatch ELSE LinkAt(s, i)
    IN  IF i = 0 THEN SubSeq(s, from, Len(s))
        ELSE IF m.end # 0
        THEN SubSeq(s, from, i - 1)
             \o <<"[">> \o m.b \o <<"]", "(">> \o m.a \o <<")">>
             \o SubLinksFrom(s, m.end + 1)
        ELSE SubSeq(s, from, i) \o SubLinksFrom(s, i + 1)

\* the match of r'<img[^>]*A1=["\'](V1)["\'][^>]*A2=["\'](V2)["\'][^>]*/?>'
\* that starts at i: V1 and V2 are runs of non-quote characters of at least
\* min1 and min2 characters; each greedy [^>]* takes the last attribute the
\* rest can match from
ImgAt(s, i, attr1, min1, attr2, min2) ==
    LET g0  == FirstAt(s, i + Len(S_img), ">")
        lim == IF g0 = 0 THEN Len(s) ELSE g0 - 1
        \* the value of attribute attr at k: [b, e], e = b - 2 when none
        Value(k, attr, min) ==
            LET b == k + Len(attr) + 1
            IN  Then(NonQuoteEnd(s, b), LAMBDA e :
                    IF /\ MatchAtCI(s, k, attr)
                       /\ b - 1 <= Len(s) /\ IsQuote(s[b - 1])
                       /\ e - b + 1 >= min /\ e + 1 <= Len(s)
                    THEN <<b, e>> ELSE <<b, b - 2>>)
        Found(v) == v[2] # v[1] - 2
        Second(k1) ==
            Then(Value(k1, attr1, min1), LAMBDA v1 :
                IF ~Found(v1) THEN {}
                ELSE Then(FirstAt(s, v1[2] + 2, ">"), LAMBDA g1 :
                        {k2 \in (v1[2] + 2)..(IF g1 = 0 THEN Len(s) ELSE g1 - 1) :
                            Then(Value(k2, attr2, min2), LAMBDA v2 :
                                Found(v2) /\ FirstAt(s, v2[2] + 2, ">") # 0)}))
        Last(ks) == CHOOSE k \in ks : \A x \in ks : x <= k
    IN  Then({k1 \in (i + Len(S_img))..lim : Second(k1) # {}}, LAMBDA ks :
            IF ks = {} THEN NoMatch
            ELSE Then(Last(ks), LAMBDA k1 :
                 Then(Last(Second(k1)), LAMBDA k2 :
                 Then(<<Value(k1, attr1, min1), Value(k2, attr2, min2)>>,
                      LAMBDA v :
                        [a |-> SubSeq(s, v[1][1], v[1][2]),
                         b |-> SubSeq(s, v[2][1], v[2][2]),
                         end |-> FirstAt(s, v[2][2] + 2, ">")]))))

\* lines 204-205: re.sub(<an image pattern>, '![alt](src)', s,
\* flags=re.IGNORECASE) from index from; src_first tells which of the two
RECURSIVE SubImagesFrom(_, _, _)
SubImagesFrom(s, from, src_first) ==
    Then(FirstMatchCI(s, from, S_img), LAMBDA i :
        IF i = 0 THEN SubSeq(s, from, Len(s))
        ELSE Then(ImgAt(s, i, IF src_first THEN S_src ELSE S_alt,
                              IF src_first THEN 1 ELSE 0,
                              IF src_first THEN S_alt ELSE S_src,
                              IF src_first THEN 0 ELSE 1), LAMBDA m :
                IF m.end # 0
                THEN SubSeq(s, from, i - 1)
                     \o <<"!", "[">> \o (IF src_first THEN m.b ELSE m.a)
                     \o <<"]", "(">> \o (IF src_first THEN m.a ELSE m.b)
                     \o <<")">> \o SubImagesFrom(s, m.end + 1, src_first)
                ELSE SubSeq(s, from, i) \o SubImagesFrom(s, i + 1, src_first)))

\* lines 195-198
ConvertFormatting(md) ==
    Then(Then(Then(
        SubElementFrom(md, 1, <<"<","s","t","r","o","n","g">>,
                       <<"<","/","s","t","r","o","n","g",">">>,
                       <<"*", "*">>, <<"*", "*">>),
        LAMBDA s : SubElementFrom(s, 1, <<"<","b">>, <<"<","/","b",">">>,
                                  <<"*", "*">>, <<"*", "*">>)),
        LAMBDA s : SubElementFrom(s, 1, <<"<","e","m">>, <<"<","/","e","m",">">>,
                                  <<"*">>, <<"*">>)),
        LAMBDA s : SubElementFrom(s, 1, <<"<","i">>, <<"<","/","i",">">>,
                                  <<"*">>, <<"*">>))

\* lines 212-217
ConvertLists(md) ==
    Then(Then(Then(Then(Then(
        SubOpenTagFrom(md, 1, <<"<","u","l">>, <<>>),
        LAMBDA s : SubLiteralFrom(s, 1, <<"<","/","u","l",">">>, <<>>)),
        LAMBDA s : SubOpenTagFrom(s, 1, <<"<","o","l">>, <<>>)),
        LAMBDA s : SubLiteralFrom(s, 1, <<"<","/","o","l",">">>, <<>>)),
        LAMBDA s : SubOpenTagFrom(s, 1, <<"<","l","i">>, <<"\n", "-", " ">>)),
        LAMBDA s : SubLiteralFrom(s, 1, <<"<","/","l","i",">">>, <<>>))

\* the character U+0060 (grave accent) of lines 224-225
Backtick == "U+0060"

\* ``` between line breaks
Fence == <<"\n", Backtick, Backtick, Backtick, "\n">>

\* lines 220-225
ConvertQuotesAndCode(md) ==
    Then(Then(Then(
        SubOpenTagFrom(md, 1, <<"<","b","l","o","c","k","q","u","o","t","e">>,
                       <<"\n", ">", " ">>),
        LAMBDA s : SubLiteralFrom(s, 1,
                       <<"<","/","b","l","o","c","k","q","u","o","t","e",">">>,
                       <<"\n">>)),
        LAMBDA s : SubElementFrom(s, 1, <<"<","c","o","d","e">>,
                       <<"<","/","c","o","d","e",">">>,
                       <<Backtick>>, <<Backtick>>)),
        LAMBDA s : SubElementFrom(s, 1, <<"<","p","r","e">>,
                       <<"<","/","p","r","e",">">>, Fence, Fence))

\* lines 201-205
ConvertLinksAndImages(md) ==
    Then(Then(SubLinksFrom(md, 1), LAMBDA s : SubImagesFrom(s, 1, TRUE)),
         LAMBDA s : SubImagesFrom(s, 1, FALSE))

\* _html_to_markdown, lines 183-239
html_to_markdown(self, html) ==
    Then(Then(Then(Then(Then(Then(Then(Then(
        WithoutScripts(html),
        LAMBDA s : ConvertHeadings(s, 1)),
        LAMBDA s : ConvertFormatting(s)),
        LAMBDA s : ConvertLinksAndImages(s)),
        LAMBDA s : ConvertParagraphs(s)),
        LAMBDA s : ConvertLists(s)),
        LAMBDA s : ConvertQuotesAndCode(s)),
        LAMBDA s : ConvertBreaks(s)),
        LAMBDA s : CleanUp(s))

\* dict.get(key, default)
Get(d, key, default) == IF key \in DOMAIN d THEN d[key] ELSE default

\* sep.join(parts), each part and the result being a sequence of pieces of
\* text
RECURSIVE JoinWith(_, _)
JoinWith(parts, sep) ==
    IF parts = <<>> THEN <<>>
    ELSE IF Len(parts) = 1 THEN parts[1]
    ELSE parts[1] \o <<sep>> \o JoinWith(Tail(parts), sep)

\* lines 357-360
AuthorStr(authors) ==
    JoinWith([i \in 1..Len(authors) |->
                 <<Get(authors[i], "family", ""), ", ",
                   Get(authors[i], "given", "")>>],
             " and ")

\* an exporter that writes a line for every field, empty when the record
\* has not got it
ref_to_bibtex_blank(self, ref) ==
    LET Field(key, head) == << <<head, Get(ref, key, ""), "}">> >>
        fields ==
            << <<"  author = {">> \o AuthorStr(Get(ref, "authors", <<>>))
               \o <<"}">> >>
            \o Field("title", "  title = {")
            \o Field("journal", "  journal = {")
            \o Field("booktitle", "  booktitle = {")
            \o Field("year", "  year = {")
            \o Field("volume", "  volume = {")
            \o Field("issue", "  number = {")
            \o Field("pages", "  pages = {")
            \o Field("doi", "  doi = {")
    IN  <<"@", Get(ref, "type", "article"), "{", Get(ref, "id", "unknown"),
          ",\n">>
        \o JoinWith(fields, ",\n") \o <<"\n}">>

\* _ref_to_bibtex, lines 347-389; the text it returns, as the sequence of
\* the pieces it is put together from
ref_to_bibtex(self, ref) ==
    LET ref_type == Get(ref, "type", "article")
        ref_id   == Get(ref, "id", "unknown")
        authors  == Get(ref, "authors", <<>>)
        Field(key, head) ==
            IF key \in DOMAIN ref THEN << <<head, ref[key], "}">> >> ELSE <<>>
        fields ==
            (IF authors # <<>>
             THEN << <<"  author = {">> \o AuthorStr(authors) \o <<"}">> >>
             ELSE <<>>)
            \o Field("title", "  title = {")
            \o Field("journal", "  journal = {")
            \o Field("booktitle", "  booktitle = {")
            \o Field("year", "  year = {")
            \o Field("volume", "  volume = {")
            \o Field("issue", "  number = {")
            \o Field("pages", "  pages = {")
            \o Field("doi", "  doi = {")
    IN  <<"@", ref_type, "{", ref_id, ",\n">>
        \o JoinWith(fields, ",\n") \o <<"\n}">>

(***************************************************************************)
(* Rendering a document to text, Markdown and BibTeX                       *)
(***************************************************************************)

MaxRenders == 2   \* renderings made in one run

\* the documents rendered: the inline example, a page with a heading, an
\* entity and a script, and a list item with a link, an image and a break
RenderDocs ==
    {<<"P_OPEN", "STRONG", "T_AND", "EM", "T_DOT", "P_CLOSE">>,
     <<"H1", "P_CLASS", "T_AMP", "P_CLOSE", "SCR">>,
     <<"LI", "LINK_B", "IMG_ALT", "BR">>}

\* the two files that hold the document
RenderNames == {FileNamePool[1], FileNamePool[2]}

\* the records of data/references.json
References ==
    <<[type |-> "book", id |-> "doe2020",
       authors |-> <<[family |-> "Doe", given |-> "J."], [family |-> "Roe"]>>,
       title |-> "On Text", year |-> "2020", issue |-> "2", pages |-> "1-9"],
      [id |-> "roe2021", title |-> "Notes", journal |-> "Letters",
       volume |-> "7", doi |-> "10.1/x"]>>

InitRender ==
    /\ doc \in RenderDocs
    /\ fs = [name \in RenderNames |-> doc]
    /\ validator = NoInstance
    /\ returned = "none"
    /\ last = NoCall
    /\ calls = 0
    /\ out = <<>>
    /\ pc = "render"
    /\ html_files = <<>>
    /\ all_passed = TRUE
    /\ exit_code = -1
    /\ ExportIdle

\* ContentBundler(source) on one of the files
NewBundler(path) ==
    /\ pc = "render"
    /\ path \in DOMAIN fs
    /\ bundler # ContentBundler_init(path, FALSE)
    /\ bundler' = ContentBundler_init(path, FALSE)
    /\ UNCHANGED <<rendered, document, doc, fs, validator, returned, last,
                   calls, out, pc, html_files, all_passed, exit_code>>

Rendering(target, input, output) ==
    [target |-> target, by |-> bundler.source_path, input |-> input,
     output |-> output]

\* lines 128-130: the file is read and rendered to text
RenderText ==
    /\ pc = "render"
    /\ bundler # NoBundler /\ ~bundler.is_directory
    /\ Len(rendered) < MaxRenders
    /\ LET content == Content(fs[bundler.source_path])
       IN  rendered' = Append(rendered,
               Rendering("text", content, html_to_text(bundler, content)))
    /\ UNCHANGED <<bundler, document, doc, fs, validator, returned, last,
                   calls, out, pc, html_files, all_passed, exit_code>>

\* lines 176-178: the file is read and rendered to Markdown
RenderMarkdown ==
    /\ pc = "render"
    /\ bundler # NoBundler /\ ~bundler.is_directory
    /\ Len(rendered) < MaxRenders
    /\ LET content == Content(fs[bundler.source_path])
       IN  rendered' = Append(rendered,
               Rendering("markdown", content,
                         html_to_markdown(bundler, content)))
    /\ UNCHANGED <<bundler, document, doc, fs, validator, returned, last,
                   calls, out, pc, html_files, all_passed, exit_code>>

\* lines 338-339: one record of the references is rendered
RenderReference(k) ==
    /\ pc = "render"
    /\ bundler # NoBundler
    /\ Len(rendered) < MaxRenders
    /\ rendered' = Append(rendered,
           Rendering("bibtex", References[k],
                     ref_to_bibtex(bundler, References[k])))
    /\ UNCHANGED <<bundler, document, doc, fs, validator, returned, last,
                   calls, out, pc, html_files, all_passed, exit_code>>

NextRender ==
    \/ \E path \in RenderNames : NewBundler(path)
    \/ RenderText
    \/ RenderMarkdown
    \/ \E k \in 1..Len(References) : RenderReference(k)

SpecRender == InitRender /\ [][NextRender]_vars

MaxInline == 3   \* fragments in such a document

MarkdownFragments ==
    {"P_OPEN", "P_CLASS", "P_CLOSE", "STRONG", "B_X", "EM", "I_Y",
     "STRONG_EM", "T_AND", "T_DOT"}

MarkdownDocs ==
    UNION {[1..n -> MarkdownFragments] : n \in 0..MaxInline}
    \cup {<<"P_OPEN", "STRONG", "T_AND", "EM", "T_DOT", "P_CLOSE">>}

InitMarkdown ==
    /\ doc \in MarkdownDocs
    /\ fs = [name \in {FileNamePool[1]} |-> doc]
    /\ validator = NoInstance
    /\ returned = "none"
    /\ last = NoCall
    /\ calls = 0
    /\ out = <<>>
    /\ pc = "input"
    /\ html_files = <<>>
    /\ all_passed = TRUE
    /\ exit_code = -1
    /\ ExportIdle

\* ContentBundler(path).bundle('markdown'): lines 43-45, 62-64, 176-178
BundleMarkdown ==
    /\ pc = "input"
    /\ \E path \in DOMAIN fs :
          LET self == ContentBundler_init(path, FALSE)
              content == Content(fs[path])
          IN  /\ bundler' = self
              /\ rendered' = <<[target |-> "markdown", by |-> path,
                                input |-> content,
                                output |-> html_to_markdown(self, content)]>>
    /\ pc' = "markdown"
    /\ UNCHANGED <<document, doc, fs, validator, returned, last, calls, out,
                   html_files, all_passed, exit_code>>

SpecMarkdown == InitMarkdown /\ [][BundleMarkdown]_vars

\* what each fragment is in Markdown by the mapping: the content x of
\* strong and b as **x**, of em and i as *x*, a paragraph tag as a line
\* break, text as itself
Markdown ==
    [f \in MarkdownFragments |->
        CASE f = "STRONG"    -> <<"*","*","B","o","l","d","*","*">>
          [] f = "B_X"       -> <<"*","*","x","*","*">>
          [] f = "EM"        -> <<"*","i","t","a","l","i","c","*">>
          [] f = "I_Y"       -> <<"*","y","*">>
          [] f = "STRONG_EM" -> <<"*","*","*","n","*","*","*">>
          [] f = "T_AND"     -> <<" ","a","n","d"," ">>
          [] f = "T_DOT"     -> <<".">>
          [] OTHER           -> <<"\n">>]

RECURSIVE Mapped(_)
Mapped(d) == IF d = <<>> THEN <<>> ELSE Markdown[Head(d)] \o Mapped(Tail(d))

\* C19: the Markdown of a document of paragraphs and inline elements is
\* the trimmed text in which the content x of every strong and b stands as
\* **x**, of every em and i as *x*, and no paragraph tag is left (each is
\* a line break, three or more of which count as a blank line)
C19_InlineMapped ==
    pc = "markdown" =>
        rendered[1].output = Strip(CollapseNewlinesFrom(Mapped(doc), 1))

(***************************************************************************)
(* convert_to_docx.py: HTMLToDocxConverter, paragraphs and their runs      *)
(***************************************************************************)

\* The nodes of the tree BeautifulSoup hands over: a string (name "") or
\* an element with its class list and its children.
TextNode(text) == [name |-> "", text |-> text, class |-> {}, children |-> <<>>]

Element(name, class, children) ==
    [name |-> name, text |-> <<>>, class |-> class, children |-> children]

\* element.get_text(strip=True) on a sequence of nodes: the stripped
\* strings of the tree, the empty ones left out, joined
RECURSIVE StrippedStrings(_)
StrippedStrings(nodes) ==
    IF nodes = <<>> THEN <<>>
    ELSE (IF Head(nodes).name = "" THEN Strip(Head(nodes).text)
          ELSE StrippedStrings(Head(nodes).children))
         \o StrippedStrings(Tail(nodes))

\* _get_text, lines 123-125
get_text(element) == StrippedStrings(<<element>>)

\* paragraph.add_run(text): a run with no formatting of its own
NewRun(text) ==
    [text |-> text, bold |-> FALSE, italic |-> FALSE, underline |-> FALSE,
     color |-> "none", superscript |-> FALSE, subscript |-> FALSE]

\* RGBColor(0, 0, 255)
Blue == "0000FF"

InlineNames == {"strong", "b", "em", "i", "a", "sup", "sub"}

\* the names of the elements below the nodes
RECURSIVE NamesBelow(_)
NamesBelow(nodes) ==
    IF nodes = <<>> THEN {}
    ELSE {Head(nodes).name} \cup NamesBelow(Head(nodes).children)
         \cup NamesBelow(Tail(nodes))

\* a run that would also take the formatting of the elements inside child
InlineRun_accumulating(child) ==
    LET names == {child.name} \cup NamesBelow(child.children)
        run   == NewRun(get_text(child))
    IN  [run EXCEPT
            !.bold = names \cap {"strong", "b"} # {},
            !.italic = names \cap {"em", "i"} # {},
            !.underline = "a" \in names,
            !.color = IF "a" \in names THEN Blue ELSE "none",
            !.superscript = "sup" \in names,
            !.subscript = "sub" \in names]

\* lines 153-167: the run added for a strong, b, em, i, a, sup or sub child
InlineRun(child) ==
    LET run == NewRun(get_text(child))
    IN  CASE child.name \in {"strong", "b"} -> [run EXCEPT !.bold = TRUE]
          [] child.name \in {"em", "i"}     -> [run EXCEPT !.italic = TRUE]
          [] child.name = "a" ->
                [run EXCEPT !.underline = TRUE, !.color = Blue]
          [] child.name = "sup" -> [run EXCEPT !.superscript = TRUE]
          [] child.name = "sub" -> [run EXCEPT !.subscript = TRUE]

\* _add_formatted_text, lines 148-181, on the children from the k-th on;
\* paragraph is the sequence of the runs of the paragraph
RECURSIVE FormatChildren(_, _, _)
FormatChildren(paragraph, children, k) ==
    IF k > Len(children) THEN paragraph
    ELSE LET child == children[k]
             after ==
                 IF child.name = ""
                 THEN IF Strip(child.text) # <<>>
                      THEN Append(paragraph, NewRun(child.text))
                      ELSE paragraph
                 ELSE IF child.name \in InlineNames
                 THEN Append(paragraph, InlineRun(child))
                 ELSE IF child.name = "br"
                 THEN Append(paragraph, NewRun(<<"\n">>))
                 ELSE IF child.name = "span" /\ "citation" \in child.class
                 THEN Append(paragraph,
                             [NewRun(get_text(child)) EXCEPT !.color = Blue])
                 ELSE FormatChildren(paragraph, child.children, 1)
         IN  FormatChildren(after, children, k + 1)

add_formatted_text(paragraph, element) ==
    FormatChildren(paragraph, element.children, 1)

\* _add_paragraph, lines 136-146: the document after it
add_paragraph(paragraphs, tag) ==
    IF get_text(tag) # <<>>
    THEN Append(paragraphs,
                [runs |-> add_formatted_text(<<>>, tag),
                 first_line_indent |-> "0.5in"])
    ELSE paragraphs

(***************************************************************************)
(* _add_paragraph applied to paragraphs of inline elements                 *)
(***************************************************************************)

MaxKids == 2   \* children of the p element

T_x   == TextNode(<<"x">>)
T_see == TextNode(<<"s", "e", "e", " ">>)

\* elements that hold text only, and the line break
Level1 ==
    {Element(n, {}, <<T_x>>) : n \in {"strong", "em", "a", "sup", "span"}}
    \cup {Element("span", {"citation"}, <<T_x>>), Element("br", {}, <<>>)}

\* elements that hold an element, alone or after a text
Level2 ==
    {Element(n, {}, <<c>>) : n \in {"a", "strong", "span"}, c \in Level1}
    \cup {Element("span", {"citation"}, <<c>>) : c \in Level1}
    \cup {Element("a", {}, <<T_see, c>>) : c \in Level1}

InlineNodes == {T_x, TextNode(<<" ">>)} \cup Level1 \cup Level2

ParagraphTags ==
    {Element("p", {}, kids) :
        kids \in UNION {[1..n -> InlineNodes] : n \in 0..MaxKids}}

InitDocx ==
    /\ doc \in ParagraphTags
    /\ fs = <<>>
    /\ validator = NoInstance
    /\ returned = "none"
    /\ last = NoCall
    /\ calls = 0
    /\ out = <<>>
    /\ pc = "input"
    /\ html_files = <<>>
    /\ all_passed = TRUE
    /\ exit_code = -1
    /\ ExportIdle

\* _handle_tag on a p element: lines 103-104, 136-146
AddParagraph ==
    /\ pc = "input"
    /\ document' = add_paragraph(document, doc)
    /\ pc' = "docx"
    /\ UNCHANGED <<bundler, rendered, doc, fs, validator, returned, last,
                   calls, out, html_files, all_passed, exit_code>>

SpecDocx == InitDocx /\ [][AddParagraph]_vars

IsRecognised(node) ==
    node.name \in InlineNames
    \/ (node.name = "span" /\ "citation" \in node.class)

\* the nodes a run is due for: the strings that are not blank, the line
\* breaks and the outermost recognised inline elements, in document order
RECURSIVE Outermost(_)
Outermost(nodes) ==
    IF nodes = <<>> THEN <<>>
    ELSE LET node == Head(nodes)
         IN  (IF node.name = ""
              THEN IF Strip(node.text) # <<>> THEN <<node>> ELSE <<>>
              ELSE IF IsRecognised(node) \/ node.name = "br" THEN <<node>>
              ELSE Outermost(node.children))
             \o Outermost(Tail(nodes))

\* the formatting an element sets by itself
OwnFormat(node) ==
    [bold        |-> node.name \in {"strong", "b"},
     italic      |-> node.name \in {"em", "i"},
     underline   |-> node.name = "a",
     color       |-> IF node.name \in {"a", "span"} THEN Blue ELSE "none",
     superscript |-> node.name = "sup",
     subscript   |-> node.name = "sub"]

FormatOf(run) ==
    [bold |-> run.bold, italic |-> run.italic, underline |-> run.underline,
     color |-> run.color, superscript |-> run.superscript,
     subscript |-> run.subscript]

RunsAdded == IF document = <<>> THEN <<>> ELSE document[1].runs

\* C20: the runs of a paragraph are one for each outermost recognised
\* inline element (and each string and line break outside them), and the
\* run of a recognised element has the text of the element and the
\* formatting that element sets by itself, whatever elements are inside it
C20_OutermostStyleOnly ==
    pc = "docx" /\ get_text(doc) # <<>> =>
        LET due == Outermost(doc.children)
        IN  /\ Len(RunsAdded) = Len(due)
            /\ \A k \in 1..Len(due) :
                  IsRecognised(due[k]) =>
                      /\ FormatOf(RunsAdded[k]) = OwnFormat(due[k])
                      /\ RunsAdded[k].text = get_text(due[k])

\* a paragraph that holds a strong inside an a has got one run, underlined
\* and coloured and not bold
C20_StrongInLink ==
    /\ pc = "docx"
    /\ doc.children = <<Element("a", {}, <<Element("strong", {}, <<T_x>>)>>)>>
    /\ Len(RunsAdded) = 1
    /\ RunsAdded[1].underline /\ RunsAdded[1].color = Blue
    /\ ~RunsAdded[1].bold

(***************************************************************************)
(* _add_image: pictures and placeholders                                   *)
(***************************************************************************)

S_data  == <<"d","a","t","a",":">>
S_image_open == <<"[","I","m","a","g","e",":"," ">>

\* WD_ALIGN_PARAGRAPH.CENTER
CENTER == "CENTER"

\* run.add_picture(src, width=Inches(5)) when the file can be read as a
\* picture: the run holds the picture
PictureRun(src) == [NewRun(<<>>) EXCEPT !.text = <<"picture", src, "5in">>]

\* the files of the working directory: a name is "png" (a picture), "txt"
\* (a file that is no picture) or not there
IsPicture(files, src) == src \in DOMAIN files /\ files[src] = "png"

\* f"[Image: {alt or src}]"
PlaceholderText(src, alt) ==
    S_image_open \o (IF alt # <<>> THEN alt ELSE src) \o <<"]">>

\* lines 263-266, 268-270: the placeholder paragraph
PlaceholderParagraph(src, alt) ==
    [runs |-> <<NewRun(PlaceholderText(src, alt))>>, alignment |-> CENTER]

\* lines 256-260, the body of the try: the paragraph and its run are added
\* to the document before add_picture opens the file, so they stay when it
\* raises
TryPicture(paragraphs, files, src) ==
    IF IsPicture(files, src)
    THEN [raised |-> FALSE,
          paragraphs |-> Append(paragraphs,
                          [runs |-> <<PictureRun(src)>>, alignment |-> CENTER])]
    ELSE [raised |-> TRUE,
          paragraphs |-> Append(paragraphs,
                          [runs |-> <<NewRun(<<>>)>>, alignment |-> CENTER])]

\* src.startswith(('http://', 'https://', 'data:'))
IsExternal(src) ==
    StartsWith(src, S_http) \/ StartsWith(src, S_https) \/ StartsWith(src, S_data)

\* _add_image without its except clause
add_image_unguarded(paragraphs, files, tag) ==
    LET src == Get(tag, "src", <<>>)
        alt == Get(tag, "alt", <<>>)
    IN  IF src # <<>> /\ ~IsExternal(src)
        THEN TryPicture(paragraphs, files, src)
        ELSE [raised |-> FALSE,
              paragraphs |-> Append(paragraphs, PlaceholderParagraph(src, alt))]

\* _add_image, lines 249-270: whether it raised and the document after it
add_image(paragraphs, files, tag) ==
    LET src == Get(tag, "src", <<>>)
        alt == Get(tag, "alt", <<>>)
    IN  IF src # <<>> /\ ~IsExternal(src)
        THEN Then(TryPicture(paragraphs, files, src), LAMBDA try :
                IF try.raised
                THEN [raised |-> FALSE,
                      paragraphs |-> Append(try.paragraphs,
                                            PlaceholderParagraph(src, alt))]
                ELSE try)
        ELSE [raised |-> FALSE,
              paragraphs |-> Append(paragraphs, PlaceholderParagraph(src, alt))]

(***************************************************************************)
(* _add_image applied to the img elements of a document                    *)
(***************************************************************************)

MaxImages == 2   \* img elements of a document

N_pic   == <<"p","i","c",".","p","n","g">>
N_gone  == <<"g","o","n","e",".","p","n","g">>
N_notes == <<"n","o","t","e","s",".","t","x","t">>
N_upper == <<"H","T","T","P",":","/","/","h","/","x",".","p","n","g">>
A_chart == <<"A"," ","c","h","a","r","t">>

\* the working directory: one picture, one file that is no picture
PictureFiles == (N_pic :> "png") @@ (N_notes :> "txt")

ImageSources ==
    {N_pic, N_gone, N_notes, N_upper, <<"h","t","t","p",":","/","/","h","/","x",".","p","n","g">>, <<"h","t","t","p","s",":","/","/","h","/","x",".","p","n","g">>, <<"d","a","t","a",":","i","m","a","g","e","/","p","n","g",";","b","a","s","e","6","4",",","A","A">>}

\* img elements: src and alt present or not, alt empty or not
ImageTags ==
    {(("src" :> s) @@ ("alt" :> a)) : s \in ImageSources \cup {<<>>},
                                      a \in {<<>>, A_chart}}
    \cup {("src" :> s) : s \in ImageSources}
    \cup {("alt" :> A_chart), <<>>}

InitImages ==
    /\ doc \in UNION {[1..n -> ImageTags] : n \in 1..MaxImages}
    /\ fs = PictureFiles
    /\ validator = NoInstance
    /\ returned = "none"
    /\ last = NoCall
    /\ calls = 0
    /\ out = <<>>
    /\ pc = "input"
    /\ html_files = <<>>
    /\ all_passed = TRUE
    /\ exit_code = -1
    /\ ExportIdle

\* _handle_tag on the next img element: lines 115-116, 249-270; calls
\* counts the img elements processed
AddImage ==
    /\ pc \in {"input", "image"}
    /\ calls < Len(doc)
    /\ \E r \in {add_image(document, fs, doc[calls + 1])} :
          /\ document' = r.paragraphs
          /\ pc' = IF r.raised THEN "raised" ELSE "image"
    /\ calls' = calls + 1
    /\ UNCHANGED <<bundler, rendered, doc, fs, validator, returned, last,
                   out, html_files, all_passed, exit_code>>

SpecImages == InitImages /\ [][AddImage]_vars

\* the img element processed last, its src and alt
LastImage == doc[calls]
LastSrc == IF "src" \in DOMAIN LastImage THEN LastImage["src"] ELSE <<>>
LastAlt == IF "alt" \in DOMAIN LastImage THEN LastImage["alt"] ELSE <<>>

\* whether the src of the img processed last is a picture that can be
\* embedded: a local name of a picture file
Embeddable ==
    /\ LastSrc # <<>>
    /\ ~\E p \in {S_http, S_https, S_data} : StartsWith(LastSrc, p)
    /\ LastSrc \in DOMAIN PictureFiles /\ PictureFiles[LastSrc] = "png"

\* C21: _add_image never raises, and when the source is remote, a data
\* URI, empty, or cannot be embedded, the paragraph it leaves last in the
\* document is the centered placeholder '[Image: <alt, or src when alt is
\* empty>]'
C21_PlaceholderNeverRaises ==
    /\ pc # "raised"
    /\ calls > 0 /\ ~Embeddable =>
          LET p == document[Len(document)]
          IN  /\ p.alignment = CENTER
              /\ Len(p.runs) = 1
              /\ p.runs[1].text =
                    S_image_open
                    \o (IF LastAlt = <<>> THEN LastSrc ELSE LastAlt) \o <<"]">>

\* an img whose file is missing and whose alt is empty has been processed:
\* the placeholder names the src
C21_MissingFilePlaceholder ==
    /\ calls = 1 /\ pc = "image"
    /\ LastSrc = N_gone /\ LastAlt = <<>>
    /\ document[Len(document)].runs[1].text = S_image_open \o N_gone \o <<"]">>

\* C29: each img processed appends exactly one paragraph to the document,
\* the one with the picture or the placeholder
C29_OneParagraphPerImage ==
    pc = "image" => Len(document) = calls

(***************************************************************************)
(* _bundle_bibtex: the export of data/references.json                      *)
(***************************************************************************)

S_bib  == <<".","b","i","b">>
S_refs == <<"d","a","t","a","/","r","e","f","e","r","e","n","c","e","s",".","j","s","o","n">>
N_site == <<"s","i","t","e">>
N_out  == <<"o","u","t",".","b","i","b">>

\* index of the last c in s, 0 when none
LastIndexOf(s, c) ==
    IF \E i \in 1..Len(s) : s[i] = c
    THEN CHOOSE i \in 1..Len(s) : s[i] = c /\ \A k \in (i + 1)..Len(s) : s[k] # c
    ELSE 0

\* Path.with_suffix(suffix) of a path whose name is not empty
with_suffix(path, suffix) ==
    LET slash == LastIndexOf(path, "/")
        dot   == LastIndexOf(path, ".")
    IN  IF dot > slash + 1 THEN SubSeq(path, 1, dot - 1) \o suffix
        ELSE path \o suffix

\* Path.parent of a relative path
parent(path) ==
    LET slash == LastIndexOf(path, "/")
    IN  IF slash = 0 THEN <<".">> ELSE SubSeq(path, 1, slash - 1)

\* a / b
PathJoin(a, b) == IF a = <<".">> THEN b ELSE a \o <<"/">> \o b

\* lines 326-330
refs_file(self) ==
    IF self.is_directory THEN PathJoin(self.source_path, S_refs)
    ELSE PathJoin(parent(self.source_path), S_refs)

\* lines 337-341: the entries of the records
RECURSIVE bibtex_entries(_, _)
bibtex_entries(self, refs) ==
    IF refs = <<>> THEN <<>>
    ELSE Then(ref_to_bibtex(self, Head(refs)), LAMBDA entry :
            (IF entry # <<>> THEN <<entry>> ELSE <<>>)
            \o bibtex_entries(self, Tail(refs)))

\* _bundle_bibtex, lines 320-345: what it returns, what it prints and the
\* files after it; output_path is <<>> for None
bundle_bibtex(self, files, output_path) ==
    LET output == IF output_path = <<>>
                  THEN with_suffix(self.source_path, S_bib) ELSE output_path
    IN  IF refs_file(self) \notin DOMAIN files
        THEN [returned |-> output,
              printed  |-> Printed("Warning: No references.json found at",
                                   refs_file(self), 0, <<>>),
              files    |-> files]
        ELSE [returned |-> output,
              printed  |-> Printed("Created BibTeX", output, 0, <<>>),
              files    |-> [p \in DOMAIN files \cup {output} |->
                              IF p = output
                              THEN JoinWith(bibtex_entries(self,
                                                files[refs_file(self)]), "\n\n")
                              ELSE files[p]]]

(***************************************************************************)
(* _bundle_bibtex applied to collections of reference records              *)
(***************************************************************************)

MaxAuthors == 2   \* authors of a record

Authors ==
    {[family |-> "Doe", given |-> "J."], [family |-> "Roe", given |-> "A."],
     [family |-> "Poe"]}

AuthorLists == UNION {[1..n -> Authors] : n \in 0..MaxAuthors}

\* a record with every field
FullRecord ==
    [type |-> "article", id |-> "a1", title |-> "T", journal |-> "J",
     booktitle |-> "B", year |-> "2020", volume |-> "7", issue |-> "2",
     pages |-> "1-9", doi |-> "10.1/x"]

\* the records: any of the fields of FullRecord, with or without a list of
\* authors
ReferenceRecords ==
    {[k \in keys |-> FullRecord[k]] : keys \in SUBSET DOMAIN FullRecord}
    \cup {[k \in keys \cup {"authors"} |->
              IF k = "authors" THEN as ELSE FullRecord[k]] :
            keys \in SUBSET DOMAIN FullRecord, as \in AuthorLists}

\* what data/references.json holds: one record, none, or the two of
\* References
ReferenceCollections ==
    {<<r>> : r \in ReferenceRecords} \cup {<<>>, References}

Sources ==
    {ContentBundler_init(FileNamePool[1], FALSE),
     ContentBundler_init(N_site, TRUE)}

\* a source, with or without data/references.json next to it
InitBibtex ==
    /\ bundler \in Sources
    /\ doc \in ReferenceCollections
    /\ \/ fs = (refs_file(bundler) :> doc)
       \/ doc = <<>> /\ fs = <<>>
    /\ validator = NoInstance
    /\ returned = "none"
    /\ last = NoCall
    /\ calls = 0
    /\ out = <<>>
    /\ pc = "input"
    /\ html_files = <<>>
    /\ all_passed = TRUE
    /\ exit_code = -1
    /\ rendered = <<>>
    /\ document = <<>>

\* bundle('bibtex', output_path): lines 47-64, 320-345
BundleBibtex(output_path) ==
    /\ pc = "input"
    /\ \E r \in {bundle_bibtex(bundler, fs, output_path)} :
          /\ returned' = r.returned
          /\ out' = Append(out, r.printed)
          /\ fs' = r.files
    /\ pc' = "bibtex"
    /\ UNCHANGED <<bundler, rendered, document, doc, validator, last, calls,
                   html_files, all_passed, exit_code>>

SpecBibtex == InitBibtex /\ [][\E o \in {<<>>, N_out} : BundleBibtex(o)]_vars

\* the fields of a record in the order of the export, with the names the
\* export gives them
FieldOrder ==
    <<"authors", "title", "journal", "booktitle", "year", "volume", "issue",
      "pages", "doi">>

ExportName ==
    [authors |-> "author", title |-> "title", journal |-> "journal",
     booktitle |-> "booktitle", year |-> "year", volume |-> "volume",
     issue |-> "number", pages |-> "pages", doi |-> "doi"]

\* 'Family, Given' of each author, joined by ' and '
RECURSIVE FamilyGiven(_)
FamilyGiven(as) ==
    IF as = <<>> THEN <<>>
    ELSE << IF "family" \in DOMAIN as[1] THEN as[1].family ELSE "", ", ",
            IF "given" \in DOMAIN as[1] THEN as[1].given ELSE "" >>
         \o (IF Len(as) > 1 THEN <<" and ">> ELSE <<>>)
         \o FamilyGiven(Tail(as))

\* the field is on the record (a list of authors: with an author in it)
Present(ref, key) ==
    key \in DOMAIN ref /\ (key = "authors" => ref[key] # <<>>)

\* the lines due for a record from the k-th field on, each after the
\* first of the record following a comma and a line break
RECURSIVE LinesDue(_, _, _)
LinesDue(ref, k, first) ==
    IF k > Len(FieldOrder) THEN <<>>
    ELSE IF ~Present(ref, FieldOrder[k]) THEN LinesDue(ref, k + 1, first)
    ELSE (IF first THEN <<>> ELSE <<",\n">>)
         \o <<"  " \o ExportName[FieldOrder[k]] \o " = {">>
         \o (IF FieldOrder[k] = "authors" THEN FamilyGiven(ref.authors)
             ELSE <<ref[FieldOrder[k]]>>)
         \o <<"}">>
         \o LinesDue(ref, k + 1, FALSE)

\* the output path of the run
OutputPath == returned

\* C22: for a collection of one record with a type and an id, the export
\* is one entry: the header '@type{id,' and then a line for exactly the
\* fields the record has, in the order author, title, journal, booktitle,
\* year, volume, number (the issue), pages, doi, the authors written
\* 'Family, Given' and joined by ' and '; a field the record has not got
\* has no line
C22_EntryHasPresentFields ==
    /\ pc = "bibtex"
    /\ Len(doc) = 1
    /\ {"type", "id"} \subseteq DOMAIN doc[1]
    /\ refs_file(bundler) \in DOMAIN fs
    => fs[OutputPath] =
          <<"@", doc[1].type, "{", doc[1].id, ",\n">>
          \o LinesDue(doc[1], 1, TRUE) \o <<"\n}">>

\* the record of an article by J. Doe with title, journal and year, and no
\* volume or pages, has been exported
C22_ArticleExported ==
    /\ pc = "bibtex"
    /\ doc = <<[type |-> "article", id |-> "a1",
                authors |-> <<[family |-> "Doe", given |-> "J."]>>,
                title |-> "T", journal |-> "J", year |-> "2020"]>>
    /\ N_out \in DOMAIN fs
    /\ fs[N_out] =
          <<"@", "article", "{", "a1", ",\n",
            "  author = {", "Doe", ", ", "J.", "}", ",\n",
            "  title = {", "T", "}", ",\n",
            "  journal = {", "J", "}", ",\n",
            "  year = {", "2020", "}", "\n}">>

\* C23: when data/references.json is absent the export has returned, has
\* printed a warning, and the output path holds an empty export
C23_AbsentCollectionEmptyExport ==
    pc = "bibtex" /\ refs_file(bundler) \notin DOMAIN fs =>
        /\ out[Len(out)].what = "Warning: No references.json found at"
        /\ OutputPath \in DOMAIN fs
        /\ fs[OutputPath] = <<>>

(***************************************************************************)
(* bundle_content.py: bundle() and main()                                  *)
(***************************************************************************)

S_txt  == <<".","t","x","t">>
S_md   == <<".","m","d">>
S_html_suffix == <<".","h","t","m","l">>
S_header_open  == <<"=","=","="," ">>
S_header_close == <<" ","=","=","=","\n","\n">>
S_blank_line   == <<"\n","\n">>
N_index == <<"i","n","d","e","x",".","h","t","m","l">>

\* Path.exists(), Path.is_dir(): a directory is there when a file is in it
is_dir(files, path) ==
    \E f \in DOMAIN files : StartsWith(f, path \o <<"/">>)

exists(files, path) == path \in DOMAIN files \/ is_dir(files, path)

\* Path.name
name(path) == SubSeq(path, LastIndexOf(path, "/") + 1, Len(path))

\* the paths the model has files at, in sorted order
PathOrder ==
    <<FileNamePool[1], S_refs, PathJoin(N_site, S_refs),
      PathJoin(N_site, N_index)>>

\* sorted(self.source_path.rglob('*.html'))
sorted_html(files, dir) ==
    SelectSeq(PathOrder, LAMBDA p :
        /\ p \in DOMAIN files
        /\ StartsWith(p, dir \o <<"/">>)
        /\ Len(p) >= Len(S_html_suffix)
        /\ MatchAt(p, Len(p) - Len(S_html_suffix) + 1, S_html_suffix))

\* what a bundler hands back: whether it raised, the path it returns, what
\* it prints and the files after it
Bundled(output, what, files) ==
    [raised |-> FALSE, error |-> "", returned |-> output,
     printed |-> <<Printed(what, output, 0, <<>>)>>, files |-> files]

\* an exception leaves the bundler: nothing is returned or printed
Raised(error, files) ==
    [raised |-> TRUE, error |-> error, returned |-> <<>>, printed |-> <<>>,
     files |-> files]

write_text(files, path, text) ==
    [p \in DOMAIN files \cup {path} |-> IF p = path THEN text ELSE files[p]]

\* lines 119-126: the texts of the files of the directory, joined
RECURSIVE DirectoryTexts(_, _, _)
DirectoryTexts(self, files, paths) ==
    IF paths = <<>> THEN <<>>
    ELSE S_header_open \o name(Head(paths)) \o S_header_close
         \o html_to_text(self, Content(files[Head(paths)]))
         \o (IF Len(paths) > 1 THEN S_blank_line ELSE <<>>)
         \o DirectoryTexts(self, files, Tail(paths))

\* _bundle_text, lines 115-133
bundle_text(self, files, output_path) ==
    LET output == IF output_path = <<>>
                  THEN with_suffix(self.source_path, S_txt) ELSE output_path
    IN  Bundled(output, "Created text",
            write_text(files, output,
                IF self.is_directory
                THEN DirectoryTexts(self, files,
                                    sorted_html(files, self.source_path))
                ELSE html_to_text(self, Content(files[self.source_path]))))

\* _bundle_markdown, lines 168-181
bundle_markdown(self, files, output_path) ==
    LET output == IF output_path = <<>>
                  THEN with_suffix(self.source_path, S_md) ELSE output_path
    IN  IF self.is_directory
        THEN Raised("ValueError: Markdown export only works with single HTML files",
                    files)
        ELSE Bundled(output, "Created Markdown",
                write_text(files, output,
                    html_to_markdown(self, Content(files[self.source_path]))))

\* the formats of bundle() that the model runs
Formats == {"text", "markdown", "bibtex"}

\* bundle, lines 47-64
bundle(self, files, format, output_path) ==
    CASE format = "text"     -> bundle_text(self, files, output_path)
      [] format = "markdown" -> bundle_markdown(self, files, output_path)
      [] format = "bibtex"   ->
            Then(bundle_bibtex(self, files, output_path), LAMBDA r :
                [raised |-> FALSE, error |-> "", returned |-> r.returned,
                 printed |-> <<r.printed>>, files |-> r.files])
      [] OTHER -> Raised("ValueError: Unknown format", files)

(***************************************************************************)
(* main() of bundle_content.py on a file, a directory and a missing path   *)
(***************************************************************************)

\* the working directory: a.html, the directory site with index.html, and
\* a data/references.json next to a.html, in site, or nowhere
BundleWorlds ==
    {(FileNamePool[1] :> d) @@ (PathJoin(N_site, N_index) :> d) @@ refs :
        d \in RenderDocs,
        refs \in {<<>>, S_refs :> References,
                  PathJoin(N_site, S_refs) :> References}}

InitBundle ==
    /\ fs \in BundleWorlds
    /\ doc = fs[FileNamePool[1]]
    /\ validator = NoInstance
    /\ returned = "none"
    /\ last = NoCall
    /\ calls = 0
    /\ out = <<>>
    /\ pc = "main"
    /\ html_files = <<>>
    /\ all_passed = TRUE
    /\ exit_code = -1
    /\ ExportIdle

\* main, lines 437-458, run with the arguments path, --format and --output
\* (<<>> when not given); an exception that nothing catches ends the
\* process with status 1
BundleMain(path, format, output) ==
    /\ pc = "main"
    /\ IF ~exists(fs, path)
       THEN /\ out' = Append(out, Printed("Error: Path not found", path, 0, <<>>))
            /\ exit_code' = 1
            /\ pc' = "exit"
            /\ UNCHANGED <<bundler, fs, returned>>
       ELSE \E self \in {ContentBundler_init(path, is_dir(fs, path))} :
            \E r \in {bundle(self, fs, format, output)} :
               /\ bundler' = self
               /\ out' = out \o r.printed
               /\ fs' = r.files
               /\ returned' = r.returned
               /\ exit_code' = IF r.raised THEN 1 ELSE 0
               /\ pc' = IF r.raised THEN "raised" ELSE "exit"
    /\ last' = [op |-> format, path |-> path]
    /\ UNCHANGED <<rendered, document, doc, validator, calls, html_files,
                   all_passed>>

BundlePaths == {FileNamePool[1], N_site, MissingPath}

SpecBundle ==
    InitBundle
    /\ [][\E p \in BundlePaths, f \in Formats, o \in {<<>>, N_out} :
             BundleMain(p, f, o)]_vars

\* C24: a run whose input path does not exist reports an error, returns a
\* status that is not zero and writes nothing; a run whose input exists
\* completes, whatever the format requested
C24_OnlyAbsenceAborts ==
    pc \in {"exit", "raised"} =>
        IF exists(fs, last.path)
        THEN pc = "exit" /\ exit_code = 0
        ELSE /\ exit_code # 0
             /\ out # <<>> /\ out[Len(out)].what = "Error: Path not found"
             /\ fs \in BundleWorlds

(***************************************************************************)
(* main() of validate_content.py run with check-selection options          *)
(***************************************************************************)

MaxMixed == 2   \* fragments in such a document

\* fragments the checks of different groups record issues for
MixedFragments ==
    {"PARA", "H1", "IMG_NONE", "L_NL1", "L_TODO1", "L_NL_TODO", "K_REL_B",
     "K_JS"}

MixedDocs == UNION {[1..n -> MixedFragments] : n \in 0..MaxMixed}

\* --check-links, --check-a11y, --check-html: lines 304-306
CheckOptions == {"check_links", "check_a11y", "check_html"}

InitOptions ==
    /\ doc \in MixedDocs
    /\ fs = (FileNamePool[1] :> doc)
    /\ validator = NoInstance
    /\ returned = "none"
    /\ last = NoCall
    /\ calls = 0
    /\ out = <<>>
    /\ pc = "start"
    /\ html_files = <<>>
    /\ all_passed = TRUE
    /\ exit_code = -1
    /\ ExportIdle

\* main, lines 301-335, on a file with the options given of --check-links,
\* --check-a11y and --check-html (and neither --all nor --word-count):
\* args.check_links, args.check_a11y and args.check_html are parsed and
\* read nowhere
MainSelected(path, options) ==
    /\ pc = "start"
    /\ path \in DOMAIN fs
    /\ \E r \in {validate_file(ContentValidator_init(FALSE), path)} :
       \E v \in {check_links(r.self, Content(fs[path]))} :
          /\ validator' = v
          /\ returned' = BoolStr(r.ret)
          /\ out' = Append(out, Printed("report", <<>>, 0, report(v)))
          /\ exit_code' = IF main_success(v) THEN 0 ELSE 1
    /\ last' = [op |-> "main", path |-> path, options |-> options]
    /\ pc' = "exit"
    /\ UNCHANGED <<exportVars, doc, fs, calls, html_files, all_passed>>

SpecOptions ==
    InitOptions
    /\ [][\E path \in DOMAIN fs, options \in SUBSET CheckOptions :
             MainSelected(path, options)]_vars

\* the type of the issues of the checks an option selects
SelectedType ==
    [check_links |-> "link", check_a11y |-> "a11y", check_html |-> "html"]

IssuesRecorded(self) ==
    {self.errors[i] : i \in 1..Len(self.errors)}
    \cup {self.warnings[i] : i \in 1..Len(self.warnings)}

\* C25: a run with exactly one of --check-links, --check-a11y and
\* --check-html records and reports issues of the selected group of
\* checks only
C25_OnlySelectedChecks ==
    pc = "exit" =>
        \A option \in CheckOptions :
            last.options = {option} =>
                /\ \A issue \in IssuesRecorded(validator) :
                      issue.type = SelectedType[option]
                /\ \A k \in 1..Len(out[1].lines) :
                      out[1].lines[k].issue.type \in {"", SelectedType[option]}

(***************************************************************************)
(* validate_file applied to documents with issues of several checks        *)
(***************************************************************************)

\* ContentValidator().validate_file(path): lines 34-43, 45-61
ValidateOne(path) ==
    /\ pc = "start"
    /\ path \in DOMAIN fs
    /\ \E r \in {validate_file(ContentValidator_init(FALSE), path)} :
          /\ validator' = r.self
          /\ returned' = BoolStr(r.ret)
    /\ last' = [op |-> "validate_file", path |-> path]
    /\ pc' = "validated"
    /\ UNCHANGED <<exportVars, doc, fs, calls, out, html_files, all_passed,
                   exit_code>>

SpecValidate == InitOptions /\ [][\E path \in DOMAIN fs : ValidateOne(path)]_vars

\* what each check records when it is the only one applied to the document
AloneErrors ==
    [structure    |-> check_html_structure_errors(Content(doc)),
     escape       |-> check_escape_sequences_errors(Content(doc)),
     a11y         |-> check_accessibility_errors(Content(doc)),
     placeholders |-> check_placeholders_errors(Content(doc))]

AloneWarnings ==
    [structure |-> check_html_structure_warnings(Content(doc)),
     a11y      |-> check_accessibility_warnings(Content(doc)),
     controls  |-> check_controls_warnings(Content(doc))]

\* C26: after validate_file on an existing file the errors are what the
\* structure, escape, accessibility and placeholder checks each record
\* alone, one after the other in that order, the warnings likewise
\* (structure, accessibility, controls), and the statistics are those of
\* the document: every check has run and none has changed what another
\* recorded
C26_ChecksCumulative ==
    pc = "validated" =>
        /\ validator.errors =
              AloneErrors.structure \o AloneErrors.escape
              \o AloneErrors.a11y \o AloneErrors.placeholders
        /\ validator.warnings =
              AloneWarnings.structure \o AloneWarnings.a11y
              \o AloneWarnings.controls
        /\ validator.stats = calculate_stats(Content(doc))

\* a document for which the structure, the escape, the accessibility and
\* the placeholder check each record an error has been validated
C26_FourChecksRecorded ==
    /\ pc = "validated"
    /\ \A type \in {"html", "escape", "a11y", "placeholder"} :
          \E i \in 1..Len(validator.errors) : validator.errors[i].type = type

(***************************************************************************)
(* Tag balance and the order of the tags                                   *)
(***************************************************************************)

MaxTags == 3   \* fragments in such a document

TagDocs == UNION {[1..n -> CheckFragments] : n \in 0..MaxTags}

InitBalance ==
    /\ doc \in TagDocs
    /\ fs = <<>>
    /\ validator = NoInstance
    /\ returned = "none"
    /\ last = NoCall
    /\ calls = 0
    /\ out = <<>>
    /\ pc = "input"
    /\ html_files = <<>>
    /\ all_passed = TRUE
    /\ exit_code = -1
    /\ ExportIdle

SpecBalance == InitBalance /\ [][CheckHtmlStructure]_vars

\* the Unclosed and Extra closing errors among the issues
BalanceIssues(issues) ==
    {issues[i] : i \in {k \in 1..Len(issues) :
                          issues[k].kind \in {S_unclosed, S_extra}}}

\* the document with its i-th and (i+1)-th fragment exchanged
Exchanged(d, i) ==
    [k \in 1..Len(d) |->
        IF k = i THEN d[i + 1] ELSE IF k = i + 1 THEN d[i] ELSE d[k]]

\* open tags minus close tags of a name, over the fragments of the document
OpenMinusClose(d, tag) ==
    Cardinality({i \in 1..Len(d) :
                    Fragments[d[i]].kind = "open" /\ Fragments[d[i]].name = tag})
    - Cardinality({i \in 1..Len(d) :
                    Fragments[d[i]].kind = "close" /\ Fragments[d[i]].name = tag})

\* C27: the Unclosed and Extra closing errors recorded are the same, as a
\* set, when two neighbouring tags of the document are exchanged (every
\* reordering is a series of such exchanges); no tag name has two balance
\* errors; and for a document without script and style elements the error
\* of a name is given by its open tags minus its close tags
C27_BalanceDependsOnCounts ==
    pc = "html" =>
        /\ \A i \in 1..(Len(doc) - 1) :
              BalanceIssues(check_html_structure_errors(Content(Exchanged(doc, i))))
                  = BalanceIssues(validator.errors)
        /\ \A e1, e2 \in BalanceIssues(validator.errors) :
              e1.tag = e2.tag => e1 = e2
        /\ MarkupOnly(doc) =>
              \A tag \in TagNames :
                 LET net == OpenMinusClose(doc, tag)
                 IN  /\ DefectCount(validator.errors, {S_unclosed}, tag)
                           = IF net > 0 THEN net ELSE 0
                     /\ DefectCount(validator.errors, {S_extra}, tag)
                           = IF net < 0 THEN -net ELSE 0

\* a document whose close tag comes before its open tag, and which leaves
\* another element open, has been checked: one balance error, for the other
\* name
C27_CloseBeforeOpen ==
    /\ pc = "html"
    /\ doc = <<"A_CLOSE", "A_OPEN", "B_OPEN">>
    /\ BalanceIssues(validator.errors) = {Issue("html", S_unclosed, <<"b">>, 1, 0)}

(***************************************************************************)
(* _check_html_structure applied to documents with a skeleton              *)
(***************************************************************************)

MaxBody == 2   \* fragments between the prologue and the epilogue

Prologues ==
    {"PRO_FULL", "PRO_PLAIN", "PRO_BODY_ATTR", "PRO_HEAD_ATTR",
     "PRO_TITLE_ATTR"}

BodyFragments == {"PARA", "H1", "BR", "A_OPEN"}

\* a prologue, a body and the epilogue, or a body alone
SkeletonDocs ==
    LET bodies == UNION {[1..n -> BodyFragments] : n \in 0..MaxBody}
    IN  {<<p>> \o b \o <<"EPI">> : p \in Prologues, b \in bodies}
        \cup bodies

InitSkeleton ==
    /\ doc \in SkeletonDocs
    /\ fs = <<>>
    /\ validator = NoInstance
    /\ returned = "none"
    /\ last = NoCall
    /\ calls = 0
    /\ out = <<>>
    /\ pc = "input"
    /\ html_files = <<>>
    /\ all_passed = TRUE
    /\ exit_code = -1
    /\ ExportIdle

SpecSkeleton == InitSkeleton /\ [][CheckHtmlStructure]_vars

\* whether the document has the element: each prologue has a head, a body
\* and a title element, a document without prologue has none
HasSkeletonElement(d, element) ==
    d # <<>> /\ d[1] \in Prologues

MissingKind ==
    [head  |-> "Missing <head> section", body |-> "Missing <body> section",
     title |-> "Missing <title> tag"]

\* C28: a 'Missing' error for head, body or title is recorded only for a
\* document that has no such element, whether or not the open tag of the
\* element carries attributes
C28_MissingOnlyWhenAbsent ==
    pc = "html" =>
        \A element \in {"head", "body", "title"} :
            KindCount(validator.errors, MissingKind[element]) > 0
                => ~HasSkeletonElement(doc, element)

(***************************************************************************)
(* _check_escape_sequences applied to lines with runs of backslashes       *)
(***************************************************************************)

MaxRunLines == 3   \* lines in such a document

\* lines whose only n, t or r after a backslash follows a run of two, three
\* or four backslashes
RunLines == {"L_RUN2_N", "L_RUN3_N", "L_RUN2_T", "L_RUN3_R", "L_RUN4_N"}

RunLineDocs ==
    UNION {[1..n -> RunLines \cup {"L_TEXT", "L_NL1"}] : n \in 0..MaxRunLines}

InitRunLines ==
    /\ doc \in RunLineDocs
    /\ fs = <<>>
    /\ validator = NoInstance
    /\ returned = "none"
    /\ last = NoCall
    /\ calls = 0
    /\ out = <<>>
    /\ pc = "input"
    /\ html_files = <<>>
    /\ all_passed = TRUE
    /\ exit_code = -1
    /\ ExportIdle

SpecRunLines == InitRunLines /\ [][CheckEscapeSequences]_vars

\* the lines the errors name
ErrorLines(issues) == {issues[i].line : i \in 1..Len(issues)}

\* C30: a line on which the only n, t or r after a backslash follows a run
\* of two or more backslashes, of even or odd length, gets no escape error;
\* a line with a single backslash before n gets one
C30_BackslashRunNoError ==
    pc = "escape" =>
        \A i \in 1..Len(doc) :
            /\ doc[i] \in RunLines => i \notin ErrorLines(validator.errors)
            /\ doc[i] = "L_NL1" => i \in ErrorLines(validator.errors)

\* a run of three backslashes before n, between two lines with a literal
\* \n, has been checked: errors for the first and the third line only
C30_OddRunBetweenLiterals ==
    /\ pc = "escape"
    /\ doc = <<"L_NL1", "L_RUN3_N", "L_NL1">>
    /\ ErrorLines(validator.errors) = {1, 3}

=============================================================================
